---- MODULE Spec2Model ----
(***************************************************************************)
(* canvas-sync: the concurrent synchronisation engine.                     *)
(*                                                                         *)
(*   SpecBuild     one call of BuildTree: the folder listing, the file     *)
(*                 listing and the tree builder of one course, with the    *)
(*                 caller's context cancellable at any time.               *)
(*   SpecSync      main and sync: the signal goroutine, listCourses, the   *)
(*                 two coordinators, BuildTree per course, filesToSync per *)
(*                 tree and the downloader pool.                           *)
(*   SpecSyncFair  SpecSync with weak fairness on every goroutine step,    *)
(*                 none on the remote server answering.                    *)
(*   SpecDiff      SyncTree on one tree, run twice over the same disk.     *)
(***************************************************************************)
EXTENDS Integers, Sequences, FiniteSets, TLC

\* ------------------------------------------------------------------ bounds
MaxCourses     == 1   \* courses (one per page of the course listing)
MaxFolderPages == 1   \* pages of a folder listing, one folder per page
MaxFilePages   == 1   \* pages of one folder's file listing, one file per page
MaxSignals     == 2   \* interrupt signals delivered to the process
MaxDiffFolders == 2   \* folders of the tree SyncTree is given
MaxDiffFiles   == 2   \* files of the tree SyncTree is given
MaxTreeFolders == 3   \* folders handed to NewCourseTree (SpecTree)
MaxTreeFiles   == 2   \* files handed to NewCourseTree (SpecTree)
MaxPoolFiles   == 11  \* files of the one folder of the tree of SpecPool
MaxDrain       == 11  \* folder pages, and file pages of a folder, of the listings of SpecDrain

\* ------------------------------------------------------- program constants
n              == 10  \* capacity of foldersC, filesC and folderC
numDownloaders == 10  \* downloader goroutines of sync

Nil      == "nil"
Canceled == "context.Canceled"
ErrCourses  == "ErrCourses"     \* a course page fetch failed
ErrFolders  == "ErrFolders"     \* a folder page fetch failed
ErrFiles    == "ErrFiles"       \* a file page fetch failed
ErrTree     == "ErrTree"        \* NewCourseTree: structural failure
ErrStat     == "ErrStat"        \* os.Stat failed with something else than ErrNotExist
ErrDownload == "ErrDownload"    \* DownloadFile: transport or status failure
ErrFs       == "ErrFs"          \* MkdirAll, CreateTemp, Chtimes or ReplaceFile failed

CourseIds   == 1..MaxCourses
FolderIds   == 1..MaxFolderPages
FilePageIds == FolderIds \X (1..MaxFilePages)

VARIABLES
    \* cancellation scopes (errgroup.WithContext, context.WithCancel)
    gErr,          \* group -> first error a goroutine of the group returned
    gCancelled,    \* group -> its cancel() was called
    \* BuildTree, per course
    btPc,          \* "idle" | "wait" | "returned" | "panicked"
    btResult,      \* [err, tree] once returned
    foldersC, filesC, folderC,   \* [buf, closed]
    tbPc,          \* tree builder: "idle" | "loop" | "iter" | "send" | "returned"
    tbFoldersNil,  \* foldersC = nil in the builder
    tbPending,     \* rest of the folder batch being iterated
    flatFolders, flatFiles,
    lfPc,          \* listFoldersInCourse: "idle" | "wait" | "returned"
    lfWorker,      \* page -> "idle" | "fetch" | "send" | "returned"
    lfBatch,       \* page -> the batch the page fetch returned
    lffPc,         \* listFilesInFolders: "idle" | "loop" | "wait" | "returned"
    lffWorker,     \* <<folder, page>> -> "idle" | "fetch" | "send" | "returned"
    lffBatch,
    \* filesToSync, per tree
    dfPc,          \* "idle" | "walk" | "send" | "returned"
    dfTree,        \* the tree it traverses
    dfWork,        \* the calls of f and the iterations of its file loop still to run
    \* fileToSyncC and the downloader pool
    fileToSyncC,   \* unbuffered: [closed]
    dlJobs,        \* the records being downloaded, each with the worker's position
    dlReturned,    \* downloader goroutines that have returned
    filesSynced,   \* stats.FilesSynced
    disk,          \* path -> [kind, size, mtime]
    run,           \* SyncTree: 1, then 2
    stPc,          \* SyncTree: "idle" | "wait" | "returned"
    \* sync
    ignoredCourses, \* config.IgnoredCourses
    lcPc, lcWorker, lcBatch, coursesC,
    tcPc,          \* tree coordinator: "idle" | "loop" | "wait" | "returned"
    task,          \* course -> "idle" | "build" | "send" | "returned"
    treeC,
    dcPc,          \* diff coordinator
    \* main
    mainPc,        \* "running" | "returned" | "exited" | "crashed"
    syncResult, reported,
    sigPc,         \* signal goroutine: "first" | "second" | "returned"
    signalChan,    \* signals buffered in signalChan (capacity 1)
    nSignals,      \* interrupts delivered so far
    \* history
    firstFailure,  \* the first failure of any stage
    interrupted,   \* an interrupt cancelled the context while stages were in flight
    dfLog,         \* the probes and decisions of filesToSync
    emitted        \* the sync decision records sent on fileToSyncC, per run

btVars  == <<btPc, btResult, foldersC, filesC, folderC, tbPc, tbFoldersNil, tbPending,
             flatFolders, flatFiles, lfPc, lfWorker, lfBatch, lffPc, lffWorker, lffBatch>>
grpVars == <<gErr, gCancelled>>
diffVars == <<dfPc, dfTree, dfWork, dfLog, emitted>>
dlVars   == <<fileToSyncC, dlJobs, dlReturned, filesSynced, disk, run, stPc>>
syncVars == <<ignoredCourses, lcPc, lcWorker, lcBatch, coursesC, tcPc, task, treeC, dcPc>>
mainVars == <<syncResult, reported, sigPc, signalChan, nSignals, interrupted>>
outsideBt == <<diffVars, dlVars, syncVars, mainVars, mainPc>>
vars    == <<grpVars, btVars, firstFailure, outsideBt>>

\* ------------------------------------------------------ cancellation scopes
GMain     == <<"main", 0>>
GSync     == <<"sync", 0>>
GLc       == <<"lc", 0>>
GTc       == <<"tc", 0>>
GDc       == <<"dc", 0>>
GSt       == <<"st", 0>>
GBt(c)    == <<"bt", c>>
GLf(c)    == <<"lf", c>>
GLff(c)   == <<"lff", c>>
Groups    == {GMain, GSync, GLc, GTc, GDc, GSt}
             \cup {GBt(c) : c \in CourseIds} \cup {GLf(c) : c \in CourseIds}
             \cup {GLff(c) : c \in CourseIds}

\* The context each errgroup.WithContext derives its own from.
Parent(g) ==
    CASE g[1] = "sync" -> GMain
      [] g[1] = "st"   -> GMain
      [] g[1] \in {"lc", "tc", "dc"} -> GSync
      [] g[1] = "bt"   -> GTc
      [] g[1] \in {"lf", "lff"} -> GBt(g[2])
      [] OTHER -> GMain

RECURSIVE CtxDoneIn(_, _)
CtxDoneIn(gc, g) == gc[g] \/ (g # GMain /\ CtxDoneIn(gc, Parent(g)))
\* <-ctx.Done() is ready
CtxDone(g) == CtxDoneIn(gCancelled, g)

\* A goroutine started with errgrp.Go returns err: the first non-nil error is kept
\* and cancels the group's context.
ErrAfter(ge, g, err) == IF err # Nil /\ ge[g] = Nil THEN [ge EXCEPT ![g] = err] ELSE ge
CancelAfter(gc, g, err) == IF err # Nil THEN [gc EXCEPT ![g] = TRUE] ELSE gc
GoReturns(g, err) ==
    /\ gErr' = ErrAfter(gErr, g, err)
    /\ gCancelled' = CancelAfter(gCancelled, g, err)
\* A function returns err from errgrp.Wait() of its group w (Wait cancels w's
\* context) to the group g it was started in.
WaitReturns(w, g, err) ==
    /\ gErr' = ErrAfter(gErr, g, err)
    /\ gCancelled' = CancelAfter([gCancelled EXCEPT ![w] = TRUE], g, err)

\* A variant of ClosesOutput that closes the channel whatever errgrp.Wait() returned.
ClosesOutputAlways(err) == TRUE
\* A variant of ClosesOutput that leaves the channel open.
ClosesOutputNever(err) == FALSE
\* if err := errgrp.Wait(); err != nil { return err }; close(out): whether a paginated
\* fetcher closes its output channel, given what errgrp.Wait() returned
ClosesOutput(err) == err = Nil

\* ------------------------------------------------------------ remote service
\* What a call may return, given whether the context handed to it is done.
\* callAPI builds its request with context.TODO(): the context plays no part.
CallAPI(ctxDone) == {"ok", "err"}
\* DownloadFile builds its request with the context: once done, the call is aborted.
DownloadFile(ctxDone) == IF ctxDone THEN {"ok", "err", "canceled"} ELSE {"ok", "err"}

FolderNames ==
    <<"a", "b", "c", "d", "e", "f", "g", "h", "i", "j", "k", "l", "m", 
      "n", "o", "p", "q", "r", "s", "t", "u", "v", "w", "x", "y", "z">>
Folder(id, parent, count) ==
    [Id |-> id, ParentId |-> parent, Name |-> FolderNames[id], FilesCount |-> count]
File(id, folder) ==
    [Id |-> id, FolderId |-> folder, FileName |-> "f", Size |-> 1, UpdatedAt |-> 1]
\* What page p of a folder listing may hold: the folder p, under any parent.
FolderBatches(p) == {<<Folder(p, par, cnt)>> : par \in 0..MaxFolderPages, cnt \in 0..1}
\* What page q of the file listing of folder f may hold.
FileBatches(f, q) == {<<File(10 * f + q, f)>>}

Chan == [buf |-> <<>>, closed |-> FALSE]
NoTree == [Course |-> 0, root |-> 0, nodes |-> <<>>]
NoResult == [err |-> Nil, tree |-> NoTree]

\* ---------------------------------------------------------------- tree.go
Perms(S) == {s \in [1..Cardinality(S) -> S] : \A i, j \in 1..Cardinality(S) : s[i] = s[j] => i = j}
Ids(folders) == {folders[i].Id : i \in 1..Len(folders)}
\* lookup[folder.Id] = &TreeFolder{Folder: folder}: a later folder of the same id wins
Lookup(folders) ==
    [id \in Ids(folders) |->
        LET last == CHOOSE i \in 1..Len(folders) :
                        /\ folders[i].Id = id
                        /\ \A j \in 1..Len(folders) : folders[j].Id = id => j <= i
        IN  [Folder |-> folders[last], folders |-> <<>>, files |-> <<>>]]

\* A variant of LinkFolders that passes over a folder whose parent is not known.
RECURSIVE LinkFoldersLenient(_, _)
LinkFoldersLenient(order, st) ==
    IF order = <<>> \/ st.err # Nil THEN st
    ELSE LET id == Head(order)
             folder == st.nodes[id].Folder
         IN  IF folder.ParentId = 0
             THEN IF st.root # 0
                  THEN [st EXCEPT !.err = ErrTree]
                  ELSE LinkFoldersLenient(Tail(order), [st EXCEPT !.root = id])
             ELSE IF folder.ParentId \notin DOMAIN st.nodes
                  THEN LinkFoldersLenient(Tail(order), st)
                  ELSE LinkFoldersLenient(Tail(order),
                           [st EXCEPT !.nodes[folder.ParentId].folders = Append(@, id)])

\* for _, folder := range lookup, in the order the map iteration takes (order):
\* st = [err, root, nodes]
RECURSIVE LinkFolders(_, _)
LinkFolders(order, st) ==
    IF order = <<>> \/ st.err # Nil THEN st
    ELSE LET id == Head(order)
             folder == st.nodes[id].Folder
         IN  IF folder.ParentId = 0
             THEN IF st.root # 0
                  THEN [st EXCEPT !.err = ErrTree]
                  ELSE LinkFolders(Tail(order), [st EXCEPT !.root = id])
             ELSE IF folder.ParentId \notin DOMAIN st.nodes
                  THEN [st EXCEPT !.err = ErrTree]
                  ELSE LinkFolders(Tail(order),
                           [st EXCEPT !.nodes[folder.ParentId].folders = Append(@, id)])

\* A variant of AttachFiles that attaches the first file only.
AttachFilesHead(files, st) ==
    IF files = <<>> \/ st.err # Nil THEN st
    ELSE IF Head(files).FolderId \notin DOMAIN st.nodes
         THEN [st EXCEPT !.err = "panic"]
         ELSE [st EXCEPT !.nodes[Head(files).FolderId].files = Append(@, Head(files))]

\* lookup[file.FolderId].files = append(...): a nil pointer dereference when the
\* folder is not in lookup
RECURSIVE AttachFiles(_, _)
AttachFiles(files, st) ==
    IF files = <<>> \/ st.err # Nil THEN st
    ELSE LET file == Head(files)
         IN  IF file.FolderId \notin DOMAIN st.nodes
             THEN [st EXCEPT !.err = "panic"]
             ELSE AttachFiles(Tail(files),
                      [st EXCEPT !.nodes[file.FolderId].files = Append(@, file)])

NewCourseTree(course, folders, files, order) ==
    LET linked == LinkFolders(order, [err |-> Nil, root |-> 0, nodes |-> Lookup(folders)])
        st     == IF linked.err # Nil THEN linked ELSE AttachFiles(files, linked)
    IN  IF st.err # Nil
        THEN [err |-> st.err, tree |-> NoTree]
        ELSE [err |-> Nil, tree |-> [Course |-> course, root |-> st.root, nodes |-> st.nodes]]

\* tree.Traverse(callback): the folders in the order the callback is called on them
RECURSIVE Visit(_, _), VisitAll(_, _)
Visit(tree, id) == <<id>> \o VisitAll(tree, tree.nodes[id].folders)
VisitAll(tree, ids) ==
    IF ids = <<>> THEN <<>> ELSE Visit(tree, Head(ids)) \o VisitAll(tree, Tail(ids))
Traverse(tree) == Visit(tree, tree.root)

\* ------------------------------------------------- BuildTree (part_000:134)
\* The process runs: main has not returned, os.Exit was not called, no goroutine panicked.
Alive == mainPc = "running" /\ \A c \in CourseIds : btPc[c] # "panicked"

Active(w) == w \in {"fetch", "send"}
\* A variant of WaitDone that returns while workers of the group are still running.
WaitDoneNow(workers) == TRUE
\* errgrp.Wait() returns once every goroutine started in the group has returned
WaitDone(workers) == \A p \in DOMAIN workers : ~Active(workers[p])
\* A variant of StartedOnResponse that starts the worker of the next page at once.
StartedOnResponseNext(p) == {p + 1}
\* the pages whose worker is started when the response for page p arrives: none, the
\* errgrp.Go of the next page comes after the select that hands the batch over
StartedOnResponse(p) == {}
Failure(err) == firstFailure' = IF firstFailure = Nil THEN err ELSE firstFailure

\* The state BuildTree(ctx, api, course) sets up: three channels and three stages.
BuildTreeStarts(c) ==
    /\ btPc' = [btPc EXCEPT ![c] = "wait"]
    /\ tbPc' = [tbPc EXCEPT ![c] = "loop"]
    /\ lfPc' = [lfPc EXCEPT ![c] = "wait"]
    /\ lfWorker' = [lfWorker EXCEPT ![c][1] = "fetch"]
    /\ lffPc' = [lffPc EXCEPT ![c] = "loop"]

\* A variant of EndOfStream that reports the end as soon as the channel is closed.
EndOfStreamEarly(ch) == ch.closed
\* v, more := <-ch yields !more: the channel is closed and its buffer is drained
EndOfStream(ch) == ch.closed /\ ch.buf = <<>>

\* --- the tree builder goroutine (part_000:148-184)
\* case <-ctx.Done(): return ctx.Err(), in the outer select or in the select that
\* forwards a folder id
TB_Cancel(c) ==
    /\ Alive
    /\ tbPc[c] \in {"loop", "send"}
    /\ CtxDone(GBt(c))
    /\ tbPc' = [tbPc EXCEPT ![c] = "returned"]
    /\ GoReturns(GBt(c), Canceled)
    /\ UNCHANGED <<outsideBt, btPc, btResult, foldersC, filesC, folderC, tbFoldersNil, tbPending,
                   flatFolders, flatFiles, lfPc, lfWorker, lfBatch, lffPc, lffWorker,
                   lffBatch, firstFailure>>

\* case folders, more := <-foldersC, a batch received
TB_RecvFolders(c) ==
    /\ Alive
    /\ tbPc[c] = "loop"
    /\ ~tbFoldersNil[c]
    /\ foldersC[c].buf # <<>>
    /\ foldersC' = [foldersC EXCEPT ![c].buf = Tail(@)]
    /\ tbPending' = [tbPending EXCEPT ![c] = Head(foldersC[c].buf)]
    /\ tbPc' = [tbPc EXCEPT ![c] = IF Head(foldersC[c].buf) = <<>> THEN "loop" ELSE "iter"]
    /\ UNCHANGED <<outsideBt, grpVars, btPc, btResult, filesC, folderC, tbFoldersNil,
                   flatFolders, flatFiles, lfPc, lfWorker, lfBatch, lffPc, lffWorker,
                   lffBatch, firstFailure>>

\* case folders, more := <-foldersC with !more: close(folderC); foldersC = nil
TB_FoldersClosed(c) ==
    /\ Alive
    /\ tbPc[c] = "loop"
    /\ ~tbFoldersNil[c]
    /\ EndOfStream(foldersC[c])
    /\ folderC' = [folderC EXCEPT ![c].closed = TRUE]
    /\ tbFoldersNil' = [tbFoldersNil EXCEPT ![c] = TRUE]
    /\ UNCHANGED <<outsideBt, grpVars, btPc, btResult, foldersC, filesC, tbPc, tbPending,
                   flatFolders, flatFiles, lfPc, lfWorker, lfBatch, lffPc, lffWorker,
                   lffBatch, firstFailure>>

\* A variant of Forwards that forwards every folder.
ForwardsAll(folder) == TRUE
\* if folder.FilesCount > 0: whether the tree builder forwards the id of the folder
Forwards(folder) == folder.FilesCount > 0

\* for _, folder := range folders: flatFolders = append(flatFolders, folder), then
\* the select on folderC when folder.FilesCount > 0
TB_Append(c) ==
    /\ Alive
    /\ tbPc[c] = "iter"
    /\ flatFolders' = [flatFolders EXCEPT ![c] = Append(@, Head(tbPending[c]))]
    /\ IF Forwards(Head(tbPending[c]))
       THEN /\ tbPc' = [tbPc EXCEPT ![c] = "send"]
            /\ UNCHANGED tbPending
       ELSE /\ tbPending' = [tbPending EXCEPT ![c] = Tail(@)]
            /\ tbPc' = [tbPc EXCEPT ![c] = IF Tail(tbPending[c]) = <<>> THEN "loop" ELSE "iter"]
    /\ UNCHANGED <<outsideBt, grpVars, btPc, btResult, foldersC, filesC, folderC, tbFoldersNil,
                   flatFiles, lfPc, lfWorker, lfBatch, lffPc, lffWorker, lffBatch,
                   firstFailure>>

\* case folderC <- folder.Id
TB_SendId(c) ==
    /\ Alive
    /\ tbPc[c] = "send"
    /\ Len(folderC[c].buf) < n
    /\ folderC' = [folderC EXCEPT ![c].buf = Append(@, Head(tbPending[c]).Id)]
    /\ tbPending' = [tbPending EXCEPT ![c] = Tail(@)]
    /\ tbPc' = [tbPc EXCEPT ![c] = IF Tail(tbPending[c]) = <<>> THEN "loop" ELSE "iter"]
    /\ UNCHANGED <<outsideBt, grpVars, btPc, btResult, foldersC, filesC, tbFoldersNil,
                   flatFolders, flatFiles, lfPc, lfWorker, lfBatch, lffPc, lffWorker,
                   lffBatch, firstFailure>>

\* case files, more := <-filesC, a batch received
TB_RecvFiles(c) ==
    /\ Alive
    /\ tbPc[c] = "loop"
    /\ filesC[c].buf # <<>>
    /\ filesC' = [filesC EXCEPT ![c].buf = Tail(@)]
    /\ flatFiles' = [flatFiles EXCEPT ![c] = @ \o Head(filesC[c].buf)]
    /\ UNCHANGED <<outsideBt, grpVars, btPc, btResult, foldersC, folderC, tbPc, tbFoldersNil, tbPending,
                   flatFolders, lfPc, lfWorker, lfBatch, lffPc, lffWorker, lffBatch,
                   firstFailure>>

\* case files, more := <-filesC with !more: break Loop; return nil
TB_FilesClosed(c) ==
    /\ Alive
    /\ tbPc[c] = "loop"
    /\ EndOfStream(filesC[c])
    /\ tbPc' = [tbPc EXCEPT ![c] = "returned"]
    /\ UNCHANGED <<outsideBt, grpVars, btPc, btResult, foldersC, filesC, folderC, tbFoldersNil, tbPending,
                   flatFolders, flatFiles, lfPc, lfWorker, lfBatch, lffPc, lffWorker,
                   lffBatch, firstFailure>>

\* --- listFoldersInCourse (part_000:56-89)
\* folders, next, err := api.FoldersInCourse(ctx, url): the server answers
LF_Fetch(c, p) ==
    /\ Alive
    /\ lfWorker[c][p] = "fetch"
    /\ \E out \in CallAPI(CtxDone(GLf(c))) :
          \/ /\ out = "ok"
             /\ \E batch \in FolderBatches(p) : lfBatch' = [lfBatch EXCEPT ![c][p] = batch]
             /\ lfWorker' = [lfWorker EXCEPT ![c] =
                    [q \in DOMAIN @ |-> IF q = p THEN "send"
                                        ELSE IF q \in StartedOnResponse(p) THEN "fetch"
                                        ELSE @[q]]]
             /\ UNCHANGED <<grpVars, firstFailure>>
          \/ /\ out = "err"
             /\ lfWorker' = [lfWorker EXCEPT ![c][p] = "returned"]
             /\ GoReturns(GLf(c), ErrFolders)
             /\ Failure(ErrFolders)
             /\ UNCHANGED lfBatch
    /\ UNCHANGED <<outsideBt, btPc, btResult, foldersC, filesC, folderC, tbPc, tbFoldersNil,
                   tbPending, flatFolders, flatFiles, lfPc, lffPc, lffWorker, lffBatch>>

\* case foldersC <- folders; then errgrp.Go(worker(next)) when there is a next page
LF_Send(c, p) ==
    /\ Alive
    /\ lfWorker[c][p] = "send"
    /\ Len(foldersC[c].buf) < n
    /\ foldersC' = [foldersC EXCEPT ![c].buf = Append(@, lfBatch[c][p])]
    /\ \E next \in BOOLEAN :
          /\ next => p + 1 \in DOMAIN lfWorker[c]
          /\ lfWorker' = [lfWorker EXCEPT ![c] =
                 [q \in DOMAIN @ |-> IF q = p THEN "returned"
                                     ELSE IF next /\ q = p + 1 THEN "fetch" ELSE @[q]]]
    /\ UNCHANGED <<outsideBt, grpVars, btPc, btResult, filesC, folderC, tbPc, tbFoldersNil,
                   tbPending, flatFolders, flatFiles, lfPc, lfBatch, lffPc, lffWorker,
                   lffBatch, firstFailure>>

\* case <-ctx.Done(): return ctx.Err(), in the worker's select
LF_SendCancel(c, p) ==
    /\ Alive
    /\ lfWorker[c][p] = "send"
    /\ CtxDone(GLf(c))
    /\ lfWorker' = [lfWorker EXCEPT ![c][p] = "returned"]
    /\ GoReturns(GLf(c), Canceled)
    /\ UNCHANGED <<outsideBt, btPc, btResult, foldersC, filesC, folderC, tbPc, tbFoldersNil,
                   tbPending, flatFolders, flatFiles, lfPc, lfBatch, lffPc, lffWorker,
                   lffBatch, firstFailure>>

\* errgrp.Wait(), then return err, or close(foldersC) and return nil
LF_Wait(c) ==
    /\ Alive
    /\ lfPc[c] = "wait"
    /\ WaitDone(lfWorker[c])
    /\ lfPc' = [lfPc EXCEPT ![c] = "returned"]
    /\ WaitReturns(GLf(c), GBt(c), gErr[GLf(c)])
    /\ foldersC' = [foldersC EXCEPT ![c].closed = ClosesOutput(gErr[GLf(c)])]
    /\ UNCHANGED <<outsideBt, btPc, btResult, filesC, folderC, tbPc, tbFoldersNil,
                   tbPending, flatFolders, flatFiles, lfWorker, lfBatch, lffPc, lffWorker,
                   lffBatch, firstFailure>>

\* --- listFilesInFolders (part_000:91-132)
\* case folderId, more := <-folderC: errgrp.Go(worker(MakeFilesInFolderUrl(folderId)))
LFF_Recv(c) ==
    /\ Alive
    /\ lffPc[c] = "loop"
    /\ folderC[c].buf # <<>>
    /\ folderC' = [folderC EXCEPT ![c].buf = Tail(@)]
    /\ lffWorker' = [lffWorker EXCEPT ![c][<<Head(folderC[c].buf), 1>>] = "fetch"]
    /\ UNCHANGED <<outsideBt, grpVars, btPc, btResult, foldersC, filesC, tbPc, tbFoldersNil,
                   tbPending, flatFolders, flatFiles, lfPc, lfWorker, lfBatch, lffPc,
                   lffBatch, firstFailure>>

\* case folderId, more := <-folderC with !more: break Loop
LFF_Closed(c) ==
    /\ Alive
    /\ lffPc[c] = "loop"
    /\ EndOfStream(folderC[c])
    /\ lffPc' = [lffPc EXCEPT ![c] = "wait"]
    /\ UNCHANGED <<outsideBt, grpVars, btPc, btResult, foldersC, filesC, folderC, tbPc,
                   tbFoldersNil, tbPending, flatFolders, flatFiles, lfPc, lfWorker, lfBatch,
                   lffWorker, lffBatch, firstFailure>>

\* case <-ctx.Done(): return ctx.Err(), in the loop: the function returns without
\* errgrp.Wait()
LFF_LoopCancel(c) ==
    /\ Alive
    /\ lffPc[c] = "loop"
    /\ CtxDone(GLff(c))
    /\ lffPc' = [lffPc EXCEPT ![c] = "returned"]
    /\ GoReturns(GBt(c), Canceled)
    /\ UNCHANGED <<outsideBt, btPc, btResult, foldersC, filesC, folderC, tbPc,
                   tbFoldersNil, tbPending, flatFolders, flatFiles, lfPc, lfWorker, lfBatch,
                   lffWorker, lffBatch, firstFailure>>

\* files, next, err := api.FilesInFolder(ctx, url): the server answers
LFF_Fetch(c, fp) ==
    /\ Alive
    /\ lffWorker[c][fp] = "fetch"
    /\ \E out \in CallAPI(CtxDone(GLff(c))) :
          \/ /\ out = "ok"
             /\ \E batch \in FileBatches(fp[1], fp[2]) :
                    lffBatch' = [lffBatch EXCEPT ![c][fp] = batch]
             /\ lffWorker' = [lffWorker EXCEPT ![c] =
                    [q \in DOMAIN @ |->
                        IF q = fp THEN "send"
                        ELSE IF q[1] = fp[1] /\ q[2] \in StartedOnResponse(fp[2]) THEN "fetch"
                        ELSE @[q]]]
             /\ UNCHANGED <<grpVars, firstFailure>>
          \/ /\ out = "err"
             /\ lffWorker' = [lffWorker EXCEPT ![c][fp] = "returned"]
             /\ GoReturns(GLff(c), ErrFiles)
             /\ Failure(ErrFiles)
             /\ UNCHANGED lffBatch
    /\ UNCHANGED <<outsideBt, btPc, btResult, foldersC, filesC, folderC, tbPc, tbFoldersNil,
                   tbPending, flatFolders, flatFiles, lfPc, lfWorker, lfBatch, lffPc>>

\* case filesC <- files; then errgrp.Go(worker(next)) when there is a next page
LFF_Send(c, fp) ==
    /\ Alive
    /\ lffWorker[c][fp] = "send"
    /\ Len(filesC[c].buf) < n
    /\ filesC' = [filesC EXCEPT ![c].buf = Append(@, lffBatch[c][fp])]
    /\ \E next \in BOOLEAN :
          /\ next => <<fp[1], fp[2] + 1>> \in DOMAIN lffWorker[c]
          /\ lffWorker' = [lffWorker EXCEPT ![c] =
                 [q \in DOMAIN @ |-> IF q = fp THEN "returned"
                                     ELSE IF next /\ q = <<fp[1], fp[2] + 1>> THEN "fetch"
                                     ELSE @[q]]]
    /\ UNCHANGED <<outsideBt, grpVars, btPc, btResult, foldersC, folderC, tbPc, tbFoldersNil,
                   tbPending, flatFolders, flatFiles, lfPc, lfWorker, lfBatch, lffPc,
                   lffBatch, firstFailure>>

\* case <-ctx.Done(): return ctx.Err(), in the worker's select
LFF_SendCancel(c, fp) ==
    /\ Alive
    /\ lffWorker[c][fp] = "send"
    /\ CtxDone(GLff(c))
    /\ lffWorker' = [lffWorker EXCEPT ![c][fp] = "returned"]
    /\ GoReturns(GLff(c), Canceled)
    /\ UNCHANGED <<outsideBt, btPc, btResult, foldersC, filesC, folderC, tbPc, tbFoldersNil,
                   tbPending, flatFolders, flatFiles, lfPc, lfWorker, lfBatch, lffPc,
                   lffBatch, firstFailure>>

\* errgrp.Wait(), then return err, or close(filesC) and return nil
LFF_Wait(c) ==
    /\ Alive
    /\ lffPc[c] = "wait"
    /\ WaitDone(lffWorker[c])
    /\ lffPc' = [lffPc EXCEPT ![c] = "returned"]
    /\ WaitReturns(GLff(c), GBt(c), gErr[GLff(c)])
    /\ filesC' = [filesC EXCEPT ![c].closed = ClosesOutput(gErr[GLff(c)])]
    /\ UNCHANGED <<outsideBt, btPc, btResult, foldersC, folderC, tbPc, tbFoldersNil,
                   tbPending, flatFolders, flatFiles, lfPc, lfWorker, lfBatch, lffWorker,
                   lffBatch, firstFailure>>

\* --- BuildTree's own errgrp.Wait() and NewCourseTree (part_000:194-204)
BT_Wait(c) ==
    /\ Alive
    /\ btPc[c] = "wait"
    /\ tbPc[c] = "returned" /\ lfPc[c] = "returned" /\ lffPc[c] = "returned"
    /\ gCancelled' = [gCancelled EXCEPT ![GBt(c)] = TRUE]
    /\ IF gErr[GBt(c)] # Nil
       THEN /\ btResult' = [btResult EXCEPT ![c] = [err |-> gErr[GBt(c)], tree |-> NoTree]]
            /\ btPc' = [btPc EXCEPT ![c] = "returned"]
            /\ UNCHANGED firstFailure
       ELSE \E order \in Perms(Ids(flatFolders[c])) :
              LET r == NewCourseTree(c, flatFolders[c], flatFiles[c], order)
              IN  /\ btResult' = [btResult EXCEPT ![c] = r]
                  /\ btPc' = [btPc EXCEPT ![c] = IF r.err = "panic" THEN "panicked"
                                                 ELSE "returned"]
                  /\ IF r.err # Nil THEN Failure(r.err) ELSE UNCHANGED firstFailure
    /\ UNCHANGED <<outsideBt, gErr, foldersC, filesC, folderC, tbPc, tbFoldersNil,
                   tbPending, flatFolders, flatFiles, lfPc, lfWorker, lfBatch, lffPc,
                   lffWorker, lffBatch>>

\* The caller's context is cancelled (by an interrupt, or by a sibling's failure).
CallerCancels ==
    /\ Alive
    /\ ~gCancelled[GMain]
    /\ gCancelled' = [gCancelled EXCEPT ![GMain] = TRUE]
    /\ UNCHANGED <<outsideBt, gErr, btVars, firstFailure>>

BuildTreeStep(c) ==
    \/ TB_Cancel(c) \/ TB_RecvFolders(c) \/ TB_FoldersClosed(c) \/ TB_Append(c)
    \/ TB_SendId(c) \/ TB_RecvFiles(c) \/ TB_FilesClosed(c)
    \/ \E p \in FolderIds : LF_Fetch(c, p) \/ LF_Send(c, p) \/ LF_SendCancel(c, p)
    \/ LF_Wait(c)
    \/ LFF_Recv(c) \/ LFF_Closed(c) \/ LFF_LoopCancel(c)
    \/ \E fp \in FilePageIds : LFF_Fetch(c, fp) \/ LFF_Send(c, fp) \/ LFF_SendCancel(c, fp)
    \/ LFF_Wait(c)
    \/ BT_Wait(c)

InitGroups ==
    /\ gErr = [g \in Groups |-> Nil]
    /\ gCancelled = [g \in Groups |-> FALSE]

\* pages and filePages are the pages the folder listing and the file listings of a
\* course can have
InitBtOn(started, pages, filePages) ==
    /\ btPc = [c \in CourseIds |-> IF c \in started THEN "wait" ELSE "idle"]
    /\ btResult = [c \in CourseIds |-> NoResult]
    /\ foldersC = [c \in CourseIds |-> Chan]
    /\ filesC = [c \in CourseIds |-> Chan]
    /\ folderC = [c \in CourseIds |-> Chan]
    /\ tbPc = [c \in CourseIds |-> IF c \in started THEN "loop" ELSE "idle"]
    /\ tbFoldersNil = [c \in CourseIds |-> FALSE]
    /\ tbPending = [c \in CourseIds |-> <<>>]
    /\ flatFolders = [c \in CourseIds |-> <<>>]
    /\ flatFiles = [c \in CourseIds |-> <<>>]
    /\ lfPc = [c \in CourseIds |-> IF c \in started THEN "wait" ELSE "idle"]
    /\ lfWorker = [c \in CourseIds |->
                     [p \in pages |-> IF c \in started /\ p = 1 THEN "fetch" ELSE "idle"]]
    /\ lfBatch = [c \in CourseIds |-> [p \in pages |-> <<>>]]
    /\ lffPc = [c \in CourseIds |-> IF c \in started THEN "loop" ELSE "idle"]
    /\ lffWorker = [c \in CourseIds |-> [fp \in filePages |-> "idle"]]
    /\ lffBatch = [c \in CourseIds |-> [fp \in filePages |-> <<>>]]
    /\ firstFailure = Nil
InitBt(started) == InitBtOn(started, FolderIds, FilePageIds)

\* ------------------------------------------------------------- local disk
RootDirectory == "root"
CourseNames == <<"course1", "course2", "course3">>
NoFile == [Id |-> 0, FolderId |-> 0, FileName |-> "", Size |-> 0, UpdatedAt |-> 0]
Dir == [kind |-> "dir", size |-> 0, mtime |-> 0]
Absent == [kind |-> "absent", size |-> 0, mtime |-> 0]    \* os.ErrNotExist
StatErr == [kind |-> "err", size |-> 0, mtime |-> 0]      \* any other error

\* filepath.Join: empty elements are ignored and the result is Cleaned ("." is
\* dropped, ".." removes the element before it). A path is the sequence of its
\* elements; a name is taken to hold no separator.
RECURSIVE Clean(_, _)
Clean(elems, acc) ==
    IF elems = <<>> THEN acc
    ELSE LET e == Head(elems)
         IN  IF e = "" \/ e = "." THEN Clean(Tail(elems), acc)
             ELSE IF e = ".."
                  THEN Clean(Tail(elems), IF acc = <<>> THEN acc ELSE SubSeq(acc, 1, Len(acc) - 1))
                  ELSE Clean(Tail(elems), Append(acc, e))
Join(elems) == Clean(elems, <<>>)
Prefixes(path) == {SubSeq(path, 1, k) : k \in 1..Len(path)}

\* os.Stat(path): Absent, StatErr (always possible, and the only outcome below a
\* regular file), or the entry
Stat(d, path) ==
    IF \E q \in Prefixes(path) : q # path /\ q \in DOMAIN d /\ d[q].kind = "file"
    THEN {StatErr}
    ELSE {StatErr} \cup (IF path \in DOMAIN d THEN {d[path]} ELSE {Absent})

\* ------------------------------------------------ filesToSync (tree.go:119)
FolderItem(id, pathElems, parentsNotOnDisk) ==
    [kind |-> "folder", id |-> id, file |-> NoFile, path |-> pathElems,
     absent |-> parentsNotOnDisk]
FileItem(file, folderPath, folderNotOnDisk) ==
    [kind |-> "file", id |-> file.FolderId, file |-> file, path |-> folderPath,
     absent |-> folderNotOnDisk]

\* A variant of RootCall that starts the recursion with the root folder's own name in
\* the path elements.
RootCallNamed(tree) ==
    <<FolderItem(tree.root,
                 <<RootDirectory, CourseNames[tree.Course], tree.nodes[tree.root].Folder.Name>>,
                 FALSE)>>

\* Start recursing from the root folder: f(tree.root, {rootDirectory, Course.Name}, false)
RootCall(tree) == <<FolderItem(tree.root, <<RootDirectory, CourseNames[tree.Course]>>, FALSE)>>

\* the path elements f is called with for a child folder
ChildElems(pathElems, child) == Append(pathElems, child.Name)
\* A variant of ChildFlag that forgets the absence of the parent.
ChildFlagReset(folderNotOnDisk) == FALSE
\* the parentsNotOnDisk flag f is called with for a child folder
ChildFlag(folderNotOnDisk) == folderNotOnDisk
\* whether f probes the folder at all
ProbesFolder(parentsNotOnDisk) == ~parentsNotOnDisk
\* whether the file loop probes a file
ProbesFile(folderNotOnDisk) == ~folderNotOnDisk
\* A variant of UpToDate that is content with one of the two attributes.
UpToDateEither(file, fi) ==
    fi.kind # "absent" /\ (file.UpdatedAt = fi.mtime \/ file.Size = fi.size)
\* err == nil && file.UpdatedAt.Equal(fi.ModTime()) && file.Size == fi.Size()
UpToDate(file, fi) == fi.kind # "absent" /\ file.UpdatedAt = fi.mtime /\ file.Size = fi.size

SeqMap(Op(_), sq) == [i \in 1..Len(sq) |-> Op(sq[i])]

LogEntry(c, kind, id, probed, fi, emit) ==
    [run |-> run, c |-> c, kind |-> kind, id |-> id, probed |-> probed, fi |-> fi, emit |-> emit]

\* a call f(folder, pathElems, parentsNotOnDisk) up to its file loop
DF_Folder(c, g) ==
    /\ Alive
    /\ dfPc[c] = "walk"
    /\ dfWork[c] # <<>>
    /\ Head(dfWork[c]).kind = "folder"
    /\ LET it         == Head(dfWork[c])
           folderPath == Join(it.path)
           Expand(folderNotOnDisk) ==
               LET node == dfTree[c].nodes[it.id]
                   FileOf(file) == FileItem(file, folderPath, folderNotOnDisk)
                   ChildOf(id) == FolderItem(id, ChildElems(it.path, dfTree[c].nodes[id].Folder),
                                             ChildFlag(folderNotOnDisk))
               IN  SeqMap(FileOf, node.files) \o SeqMap(ChildOf, node.folders)
                       \o Tail(dfWork[c])
       IN  IF ~ProbesFolder(it.absent)
           THEN /\ it.id # 0
                /\ dfWork' = [dfWork EXCEPT ![c] = Expand(TRUE)]
                /\ dfLog' = dfLog \cup {LogEntry(c, "folder", it.id, FALSE, Absent, FALSE)}
                /\ UNCHANGED <<grpVars, dfPc, firstFailure, mainPc>>
           ELSE \E fi \in Stat(disk, folderPath) :
                  IF fi = StatErr
                  THEN /\ dfPc' = [dfPc EXCEPT ![c] = "returned"]
                       /\ GoReturns(g, ErrStat)
                       /\ Failure(ErrStat)
                       /\ UNCHANGED <<dfWork, dfLog, mainPc>>
                  ELSE IF it.id = 0
                  THEN \* tree.root is nil: folder.files dereferences it
                       /\ mainPc' = "crashed"
                       /\ Failure("panic")
                       /\ UNCHANGED <<grpVars, dfPc, dfWork, dfLog>>
                  ELSE /\ dfWork' = [dfWork EXCEPT ![c] = Expand(fi = Absent)]
                       /\ dfLog' = dfLog \cup {LogEntry(c, "folder", it.id, TRUE, fi, FALSE)}
                       /\ UNCHANGED <<grpVars, dfPc, firstFailure, mainPc>>
    /\ UNCHANGED <<btVars, dfTree, emitted, dlVars, syncVars, mainVars>>

\* one iteration of the file loop up to its select
DF_File(c, g) ==
    /\ Alive
    /\ dfPc[c] = "walk"
    /\ dfWork[c] # <<>>
    /\ Head(dfWork[c]).kind = "file"
    /\ LET it       == Head(dfWork[c])
           filePath == Join(it.path \o <<it.file.FileName>>)
       IN  IF ~ProbesFile(it.absent)
           THEN /\ dfPc' = [dfPc EXCEPT ![c] = "send"]
                /\ dfLog' = dfLog \cup {LogEntry(c, "file", it.file.Id, FALSE, Absent, TRUE)}
                /\ UNCHANGED <<grpVars, dfWork, firstFailure>>
           ELSE \E fi \in Stat(disk, filePath) :
                  IF fi = StatErr
                  THEN /\ dfPc' = [dfPc EXCEPT ![c] = "returned"]
                       /\ GoReturns(g, ErrStat)
                       /\ Failure(ErrStat)
                       /\ UNCHANGED <<dfWork, dfLog>>
                  ELSE /\ IF UpToDate(it.file, fi)
                          THEN /\ dfWork' = [dfWork EXCEPT ![c] = Tail(@)]   \* continue
                               /\ UNCHANGED dfPc
                          ELSE /\ dfPc' = [dfPc EXCEPT ![c] = "send"]
                               /\ UNCHANGED dfWork
                       /\ dfLog' = dfLog \cup {LogEntry(c, "file", it.file.Id, TRUE, fi,
                                                        ~UpToDate(it.file, fi))}
                       /\ UNCHANGED <<grpVars, firstFailure>>
    /\ UNCHANGED <<btVars, dfTree, emitted, dlVars, syncVars, mainVars, mainPc>>

\* A variant of IdleDownloaders with one downloader more than numDownloaders.
IdleDownloadersSpare == numDownloaders + 1 - Cardinality(dlJobs) - dlReturned
\* for i := 0; i < numDownloaders; i++: the downloaders waiting in their select, those
\* neither handling a record nor returned
IdleDownloaders == numDownloaders - Cardinality(dlJobs) - dlReturned
\* FileToSync{File: file.File, Path: filePath}
FileToSync(it) == [File |-> it.file, Path |-> Join(it.path \o <<it.file.FileName>>)]

\* case fileToSyncC <- FileToSync{...}, received by a downloader in its select
\* (case file, more := <-fileToSyncC)
DF_Send(c) ==
    /\ Alive
    /\ dfPc[c] = "send"
    /\ IdleDownloaders > 0
    /\ LET rec == FileToSync(Head(dfWork[c]))
       IN  /\ dlJobs' = dlJobs \cup {[c |-> c, rec |-> rec, pc |-> "mkdir"]}
           /\ emitted' = emitted \cup {[run |-> run, c |-> c, rec |-> rec]}
    /\ dfWork' = [dfWork EXCEPT ![c] = Tail(@)]
    /\ dfPc' = [dfPc EXCEPT ![c] = "walk"]
    /\ UNCHANGED <<grpVars, btVars, firstFailure, dfTree, dfLog, fileToSyncC, dlReturned,
                   filesSynced, disk, run, stPc, syncVars, mainVars, mainPc>>

\* case <-ctx.Done(): return ctx.Err(), in the select of the file loop
DF_SendCancel(c, g) ==
    /\ Alive
    /\ dfPc[c] = "send"
    /\ CtxDone(g)
    /\ dfPc' = [dfPc EXCEPT ![c] = "returned"]
    /\ GoReturns(g, Canceled)
    /\ UNCHANGED <<btVars, firstFailure, dfTree, dfWork, dfLog, emitted, dlVars, syncVars,
                   mainVars, mainPc>>

\* filesToSync returns nil; in SyncTree the goroutine then closes fileToSyncC
\* (tree.go:189-196), in sync the coordinator closes it
DF_Return(c, g, closes) ==
    /\ Alive
    /\ dfPc[c] = "walk"
    /\ dfWork[c] = <<>>
    /\ dfPc' = [dfPc EXCEPT ![c] = "returned"]
    /\ fileToSyncC' = IF closes THEN [closed |-> TRUE] ELSE fileToSyncC
    /\ UNCHANGED <<grpVars, btVars, firstFailure, dfTree, dfWork, dfLog, emitted, dlJobs,
                   dlReturned, filesSynced, disk, run, stPc, syncVars, mainVars, mainPc>>

\* --------------------------- the downloader pool (part_000:377-400, tree.go:198-246)
\* case <-ctx.Done(): return ctx.Err()
DL_Cancel(g) ==
    /\ Alive
    /\ IdleDownloaders > 0
    /\ CtxDone(g)
    /\ dlReturned' = dlReturned + 1
    /\ GoReturns(g, Canceled)
    /\ UNCHANGED <<btVars, firstFailure, diffVars, fileToSyncC, dlJobs, filesSynced, disk,
                   run, stPc, syncVars, mainVars, mainPc>>

\* case file, more := <-fileToSyncC with !more: return nil
DL_Closed ==
    /\ Alive
    /\ IdleDownloaders > 0
    /\ fileToSyncC.closed
    /\ dlReturned' = dlReturned + 1
    /\ UNCHANGED <<grpVars, btVars, firstFailure, diffVars, fileToSyncC, dlJobs, filesSynced,
                   disk, run, stPc, syncVars, mainVars, mainPc>>

DirOf(path) == SubSeq(path, 1, Len(path) - 1)
\* A variant of TempPath that writes in place, at the path of the file itself.
TempPathInPlace(path, file) == path
\* f.Name() of f := os.CreateTemp(filepath.Dir(file.Path), "canvassync"): a new name
\* in the directory of the file
TempPath(path, file) == Append(DirOf(path), "canvassync" \o ToString(file.Id))
\* the file os.CreateTemp creates: empty, written now (after the remote update)
CreateTemp(d, tmp, file) ==
    [q \in DOMAIN d \cup {tmp} |->
        IF q = tmp THEN [kind |-> "file", size |-> 0, mtime |-> file.UpdatedAt + 1] ELSE d[q]]
\* os.Remove(f.Name())
Remove(d, tmp) == [q \in DOMAIN d \ {tmp} |-> d[q]]

\* the worker returns err after the deferred f.Close() and os.Remove(f.Name())
DL_Fails(g, job, err) ==
    /\ dlJobs' = dlJobs \ {job}
    /\ dlReturned' = dlReturned + 1
    /\ GoReturns(g, err)
    /\ IF err # Canceled THEN Failure(err) ELSE UNCHANGED firstFailure
    /\ disk' = IF job.pc \in {"xfer", "chtimes", "rename"}
               THEN Remove(disk, TempPath(job.rec.Path, job.rec.File))
               ELSE disk
    /\ UNCHANGED filesSynced

\* os.MkdirAll(filepath.Dir(file.Path), 0755): fails when an element is a regular file
MkdirAll(d, dir) ==
    [q \in DOMAIN d \cup Prefixes(dir) |-> IF q \in DOMAIN d THEN d[q] ELSE Dir]
\* the bytes the server sends for a file are those its listing entry announces
ServedSize(file) == file.Size
\* A variant of Chtimes that leaves the time of writing as the modification time.
ChtimesNow(file) == file.UpdatedAt + 1
\* what os.Chtimes(f.Name(), UpdatedAt, UpdatedAt) leaves as the modification time
Chtimes(file) == file.UpdatedAt
\* atomicFile.ReplaceFile(f.Name(), file.Path): the temporary file takes the place of
\* whatever file is at the path
ReplaceFile(d, tmp, path) ==
    [q \in (DOMAIN d \ {tmp}) \cup {path} |-> IF q = path THEN d[tmp] ELSE d[q]]

\* A variant of NextStep that sets the modification time before the transfer.
NextStepTimeFirst(pc) ==
    CASE pc = "mkdir" -> "temp" [] pc = "temp" -> "chtimes" [] pc = "chtimes" -> "xfer"
      [] pc = "xfer" -> "rename" [] OTHER -> "done"
\* the order of the steps of a downloader on one record
NextStep(pc) ==
    CASE pc = "mkdir" -> "temp" [] pc = "temp" -> "xfer" [] pc = "xfer" -> "chtimes"
      [] pc = "chtimes" -> "rename" [] OTHER -> "done"

\* A variant of Counted that does not count the record.
CountedNone(rec) == 0
\* stats.FilesSynced.Add(1), once the record is written
Counted(rec) == 1

\* MkdirAll, CreateTemp, Chtimes and ReplaceFile, each of which may fail
DL_FsStep(g, job) ==
    /\ Alive
    /\ job \in dlJobs
    /\ job.pc \in {"mkdir", "temp", "chtimes", "rename"}
    /\ \/ DL_Fails(g, job, ErrFs)
       \/ /\ job.pc = "mkdir"
          /\ \A q \in Prefixes(DirOf(job.rec.Path)) : q \in DOMAIN disk => disk[q].kind = "dir"
          /\ disk' = MkdirAll(disk, DirOf(job.rec.Path))
          /\ dlJobs' = (dlJobs \ {job}) \cup {[job EXCEPT !.pc = NextStep(job.pc)]}
          /\ UNCHANGED <<grpVars, firstFailure, dlReturned, filesSynced>>
       \/ /\ job.pc = "temp"
          /\ DirOf(job.rec.Path) \in DOMAIN disk
          /\ disk' = CreateTemp(disk, TempPath(job.rec.Path, job.rec.File), job.rec.File)
          /\ dlJobs' = (dlJobs \ {job}) \cup {[job EXCEPT !.pc = NextStep(job.pc)]}
          /\ UNCHANGED <<grpVars, firstFailure, dlReturned, filesSynced>>
       \/ /\ job.pc = "chtimes"
          /\ disk' = [disk EXCEPT ![TempPath(job.rec.Path, job.rec.File)].mtime =
                                     Chtimes(job.rec.File)]
          /\ dlJobs' = (dlJobs \ {job}) \cup {[job EXCEPT !.pc = NextStep(job.pc)]}
          /\ UNCHANGED <<grpVars, firstFailure, dlReturned, filesSynced>>
       \/ /\ job.pc = "rename"
          /\ job.rec.Path \in DOMAIN disk => disk[job.rec.Path].kind = "file"
          /\ DirOf(job.rec.Path) \in DOMAIN disk
          /\ disk' = ReplaceFile(disk, TempPath(job.rec.Path, job.rec.File), job.rec.Path)
          /\ dlJobs' = dlJobs \ {job}
          /\ filesSynced' = filesSynced + Counted(job.rec)
          /\ UNCHANGED <<grpVars, firstFailure, dlReturned>>
    /\ UNCHANGED <<btVars, diffVars, fileToSyncC, run, stPc, syncVars, mainVars, mainPc>>

\* api.DownloadFile(ctx, f, url): the server answers; io.Copy writes the file now
\* (after the remote update)
DL_Xfer(g, job) ==
    /\ Alive
    /\ job \in dlJobs
    /\ job.pc = "xfer"
    /\ \E out \in DownloadFile(CtxDone(g)) \ {"canceled"} :
          \/ /\ out = "ok"
             /\ disk' = [disk EXCEPT ![TempPath(job.rec.Path, job.rec.File)] =
                                        [@ EXCEPT !.size = ServedSize(job.rec.File),
                                                  !.mtime = job.rec.File.UpdatedAt + 1]]
             /\ dlJobs' = (dlJobs \ {job}) \cup {[job EXCEPT !.pc = NextStep(job.pc)]}
             /\ UNCHANGED <<grpVars, firstFailure, dlReturned, filesSynced>>
          \/ /\ out = "err"
             /\ DL_Fails(g, job, ErrDownload)
    /\ UNCHANGED <<btVars, diffVars, fileToSyncC, run, stPc, syncVars, mainVars, mainPc>>

\* api.DownloadFile(ctx, f, url): the request is aborted, its context being done
DL_XferAbort(g, job) ==
    /\ Alive
    /\ job \in dlJobs
    /\ job.pc = "xfer"
    /\ "canceled" \in DownloadFile(CtxDone(g))
    /\ DL_Fails(g, job, Canceled)
    /\ UNCHANGED <<btVars, diffVars, fileToSyncC, run, stPc, syncVars, mainVars, mainPc>>

\* ------------------------------------------------- SyncTree (tree.go:184)
\* errgrp.Wait() of SyncTree; after a first run that succeeded, SyncTree is called
\* again on the same tree and the disk the first run left
ST_Wait ==
    /\ Alive
    /\ stPc = "wait"
    /\ dfPc[1] = "returned"
    /\ dlJobs = {}
    /\ dlReturned = numDownloaders
    /\ IF run = 1 /\ gErr[GSt] = Nil
       THEN /\ run' = 2
            /\ gErr' = [gErr EXCEPT ![GSt] = Nil]
            /\ gCancelled' = [gCancelled EXCEPT ![GSt] = FALSE]
            /\ dfPc' = [dfPc EXCEPT ![1] = "walk"]
            /\ dfWork' = [dfWork EXCEPT ![1] = RootCall(dfTree[1])]
            /\ fileToSyncC' = [closed |-> FALSE]
            /\ dlReturned' = 0
            /\ filesSynced' = 0
            /\ UNCHANGED <<stPc, syncResult>>
       ELSE /\ stPc' = "returned"
            /\ syncResult' = gErr[GSt]
            /\ gCancelled' = [gCancelled EXCEPT ![GSt] = TRUE]
            /\ UNCHANGED <<gErr, run, dfPc, dfWork, fileToSyncC, dlReturned, filesSynced>>
    /\ UNCHANGED <<btVars, firstFailure, dfTree, dfLog, emitted, dlJobs, disk, syncVars,
                   reported, sigPc, signalChan, nSignals, interrupted, mainPc>>

\* --- the trees and disks SyncTree is started on
DiffNames == {"f", "g"}
DiffFolderLists ==
    {fs \in UNION {[1..k -> [Id : 1..k, ParentId : 0..k, Name : {"a", "b", "c"}, FilesCount : {1}]] :
                       k \in 1..MaxDiffFolders} :
        \A i \in DOMAIN fs :
            /\ fs[i].Id = i
            /\ fs[i].Name = FolderNames[i]
            /\ IF i = 1 THEN fs[i].ParentId = 0 ELSE fs[i].ParentId \in 1..(i - 1)}
DiffFileLists(fs) ==
    {fl \in [1..MaxDiffFiles -> [Id : 1..MaxDiffFiles, FolderId : DOMAIN fs, FileName : DiffNames,
                                 Size : 1..MaxDiffFiles, UpdatedAt : {1}]] :
        \A i \in DOMAIN fl : fl[i].Id = i /\ fl[i].Size = i}
DiffTrees ==
    UNION {{NewCourseTree(1, fs, fl, order).tree :
                fl \in DiffFileLists(fs), order \in Perms(Ids(fs))} : fs \in DiffFolderLists}

\* the chain of folder ids from the root down to folder id
RECURSIVE FolderChain(_, _)
FolderChain(tree, id) ==
    IF tree.nodes[id].Folder.ParentId = 0 THEN <<id>>
    ELSE Append(FolderChain(tree, tree.nodes[id].Folder.ParentId), id)
NameOf(tree, id) == tree.nodes[id].Folder.Name
\* the directory of a folder: the root folder is the course's directory
FolderDir(tree, id) ==
    LET chain == FolderChain(tree, id)
    IN  Join(<<RootDirectory, CourseNames[tree.Course]>>
             \o [i \in 1..(Len(chain) - 1) |-> NameOf(tree, chain[i + 1])])
TreeFiles(tree) == UNION {{tree.nodes[id].files[i] : i \in DOMAIN tree.nodes[id].files} :
                             id \in DOMAIN tree.nodes}
FilePath(tree, file) == Join(FolderDir(tree, file.FolderId) \o <<file.FileName>>)

\* A disk: the directories of a parent-closed set of folders, and for each file of
\* those folders nothing, the file as the listing has it, or a file of another size
\* or another modification time.
OnDisk(file, how) ==
    [kind |-> "file", size |-> IF how = "size" THEN file.Size + 1 ELSE file.Size,
     mtime |-> IF how = "mtime" THEN file.UpdatedAt + 1 ELSE file.UpdatedAt]
DiskOf(tree, dirs, how) ==
    LET files == {f \in TreeFiles(tree) : f.FolderId \in dirs /\ how[f.Id] # "none"}
        dpaths == UNION {Prefixes(FolderDir(tree, id)) : id \in dirs}
        fpaths == {FilePath(tree, f) : f \in files} \ dpaths
    IN  [q \in dpaths \cup fpaths |->
            IF q \in dpaths THEN Dir
            ELSE LET f == CHOOSE f \in files : FilePath(tree, f) = q
                                 /\ \A h \in files : FilePath(tree, h) = q => h.Id <= f.Id
                 IN  OnDisk(f, how[f.Id])]
DiffDisks(tree) ==
    {DiskOf(tree, dirs, how) :
        dirs \in {ds \in SUBSET DOMAIN tree.nodes :
                     \A id \in ds : tree.nodes[id].Folder.ParentId \in ds \cup {0}},
        how \in [1..MaxDiffFiles -> {"none", "same", "size", "mtime"}]}

\* ------------------------------------------------ sync (part_000:253-419)
Course(id) == [Id |-> id, Name |-> CourseNames[id]]
\* What page p of the course listing may hold: the course p.
CourseBatches(p) == {<<Course(p)>>}
\* A variant of Synced that skips no course.
SyncedAll(batch) == {batch[i].Id : i \in DOMAIN batch}
\* Skip ignored courses
Synced(batch) == {batch[i].Id : i \in {j \in DOMAIN batch : batch[j].Id \notin ignoredCourses}}

\* --- listCourses (part_000:21-54)
\* courses, next, err := api.Courses(ctx, url): the server answers
LC_Fetch(p) ==
    /\ Alive
    /\ lcWorker[p] = "fetch"
    /\ \E out \in CallAPI(CtxDone(GLc)) :
          \/ /\ out = "ok"
             /\ \E batch \in CourseBatches(p) : lcBatch' = [lcBatch EXCEPT ![p] = batch]
             /\ lcWorker' = [q \in DOMAIN lcWorker |->
                                IF q = p THEN "send"
                                ELSE IF q \in StartedOnResponse(p) THEN "fetch"
                                ELSE lcWorker[q]]
             /\ UNCHANGED <<grpVars, firstFailure>>
          \/ /\ out = "err"
             /\ lcWorker' = [lcWorker EXCEPT ![p] = "returned"]
             /\ GoReturns(GLc, ErrCourses)
             /\ Failure(ErrCourses)
             /\ UNCHANGED lcBatch
    /\ UNCHANGED <<btVars, diffVars, dlVars, mainVars, mainPc, ignoredCourses, lcPc, coursesC,
                   tcPc, task, treeC, dcPc>>

\* case coursesC <- courses, received by the tree coordinator (case courses, more :=
\* <-coursesC), which starts BuildTree for every course not ignored; the worker then
\* starts the worker of the next page
LC_Send(p) ==
    /\ Alive
    /\ lcWorker[p] = "send"
    /\ tcPc = "loop"
    /\ \E next \in BOOLEAN :
          /\ next => p < MaxCourses
          /\ lcWorker' = [q \in DOMAIN lcWorker |->
                            IF q = p THEN "returned"
                            ELSE IF next /\ q = p + 1 THEN "fetch" ELSE lcWorker[q]]
    /\ LET started == Synced(lcBatch[p])
       IN  /\ task' = [c \in CourseIds |-> IF c \in started THEN "build" ELSE task[c]]
           /\ btPc' = [c \in CourseIds |-> IF c \in started THEN "wait" ELSE btPc[c]]
           /\ tbPc' = [c \in CourseIds |-> IF c \in started THEN "loop" ELSE tbPc[c]]
           /\ lfPc' = [c \in CourseIds |-> IF c \in started THEN "wait" ELSE lfPc[c]]
           /\ lfWorker' = [c \in CourseIds |->
                             IF c \in started THEN [lfWorker[c] EXCEPT ![1] = "fetch"]
                             ELSE lfWorker[c]]
           /\ lffPc' = [c \in CourseIds |-> IF c \in started THEN "loop" ELSE lffPc[c]]
    /\ UNCHANGED <<grpVars, firstFailure, btResult, foldersC, filesC, folderC, tbFoldersNil,
                   tbPending, flatFolders, flatFiles, lfBatch, lffWorker, lffBatch,
                   diffVars, dlVars, mainVars, mainPc, ignoredCourses, lcPc, lcBatch,
                   coursesC, tcPc, treeC, dcPc>>

\* case <-ctx.Done(): return ctx.Err(), in the worker's select
LC_SendCancel(p) ==
    /\ Alive
    /\ lcWorker[p] = "send"
    /\ CtxDone(GLc)
    /\ lcWorker' = [lcWorker EXCEPT ![p] = "returned"]
    /\ GoReturns(GLc, Canceled)
    /\ UNCHANGED <<btVars, firstFailure, diffVars, dlVars, mainVars, mainPc, ignoredCourses,
                   lcPc, lcBatch, coursesC, tcPc, task, treeC, dcPc>>

\* errgrp.Wait(), then return err, or close(coursesC) and return nil
LC_Wait ==
    /\ Alive
    /\ lcPc = "wait"
    /\ WaitDone(lcWorker)
    /\ lcPc' = "returned"
    /\ WaitReturns(GLc, GSync, gErr[GLc])
    /\ coursesC' = [closed |-> ClosesOutput(gErr[GLc])]
    /\ UNCHANGED <<btVars, firstFailure, diffVars, dlVars, mainVars, mainPc, ignoredCourses,
                   lcWorker, lcBatch, tcPc, task, treeC, dcPc>>

\* --- the tree coordinator (part_000:288-333)
\* case courses, more := <-coursesC with !more: break Loop
TC_Closed ==
    /\ Alive
    /\ tcPc = "loop"
    /\ coursesC.closed
    /\ tcPc' = "wait"
    /\ UNCHANGED <<grpVars, btVars, firstFailure, diffVars, dlVars, mainVars, mainPc,
                   ignoredCourses, lcPc, lcWorker, lcBatch, coursesC, task, treeC, dcPc>>

\* case <-ctx.Done(): return ctx.Err(), in the loop: the goroutine returns without
\* errgrp.Wait()
TC_LoopCancel ==
    /\ Alive
    /\ tcPc = "loop"
    /\ CtxDone(GTc)
    /\ tcPc' = "returned"
    /\ GoReturns(GSync, Canceled)
    /\ UNCHANGED <<btVars, firstFailure, diffVars, dlVars, mainVars, mainPc,
                   ignoredCourses, lcPc, lcWorker, lcBatch, coursesC, task, treeC, dcPc>>

\* errgrp.Wait(), then return err, or close(treeC) and return nil
TC_Wait ==
    /\ Alive
    /\ tcPc = "wait"
    /\ \A c \in CourseIds : task[c] \in {"idle", "returned"}
    /\ tcPc' = "returned"
    /\ WaitReturns(GTc, GSync, gErr[GTc])
    /\ treeC' = [closed |-> gErr[GTc] = Nil]
    /\ UNCHANGED <<btVars, firstFailure, diffVars, dlVars, mainVars, mainPc,
                   ignoredCourses, lcPc, lcWorker, lcBatch, coursesC, task, dcPc>>

\* tree, err := BuildTree(ctx, api, course); if err != nil { return err }
Task_Built(c) ==
    /\ Alive
    /\ task[c] = "build"
    /\ btPc[c] = "returned"
    /\ IF btResult[c].err # Nil
       THEN /\ task' = [task EXCEPT ![c] = "returned"]
            /\ GoReturns(GTc, btResult[c].err)
       ELSE /\ task' = [task EXCEPT ![c] = "send"]
            /\ UNCHANGED grpVars
    /\ UNCHANGED <<btVars, firstFailure, diffVars, dlVars, mainVars, mainPc,
                   ignoredCourses, lcPc, lcWorker, lcBatch, coursesC, tcPc, treeC, dcPc>>

\* case treeC <- tree: return nil, received by the diff coordinator (case tree, more
\* := <-treeC), which starts filesToSync on the tree
Task_Send(c) ==
    /\ Alive
    /\ task[c] = "send"
    /\ dcPc = "loop"
    /\ task' = [task EXCEPT ![c] = "returned"]
    /\ dfTree' = [dfTree EXCEPT ![c] = btResult[c].tree]
    /\ dfPc' = [dfPc EXCEPT ![c] = "walk"]
    /\ dfWork' = [dfWork EXCEPT ![c] = RootCall(btResult[c].tree)]
    /\ UNCHANGED <<grpVars, btVars, firstFailure, dfLog, emitted, dlVars, mainVars, mainPc,
                   ignoredCourses, lcPc, lcWorker, lcBatch, coursesC, tcPc, treeC, dcPc>>

\* case <-ctx.Done(): return ctx.Err(), in the select that sends the tree
Task_SendCancel(c) ==
    /\ Alive
    /\ task[c] = "send"
    /\ CtxDone(GTc)
    /\ task' = [task EXCEPT ![c] = "returned"]
    /\ GoReturns(GTc, Canceled)
    /\ UNCHANGED <<btVars, firstFailure, diffVars, dlVars, mainVars, mainPc,
                   ignoredCourses, lcPc, lcWorker, lcBatch, coursesC, tcPc, treeC, dcPc>>

\* --- the diff coordinator (part_000:337-359)
\* case tree, more := <-treeC with !more: break Loop
DC_Closed ==
    /\ Alive
    /\ dcPc = "loop"
    /\ treeC.closed
    /\ dcPc' = "wait"
    /\ UNCHANGED <<grpVars, btVars, firstFailure, diffVars, dlVars, mainVars, mainPc,
                   ignoredCourses, lcPc, lcWorker, lcBatch, coursesC, tcPc, task, treeC>>

\* case <-ctx.Done(): return ctx.Err(), in the loop: the goroutine returns without
\* errgrp.Wait()
DC_LoopCancel ==
    /\ Alive
    /\ dcPc = "loop"
    /\ CtxDone(GDc)
    /\ dcPc' = "returned"
    /\ GoReturns(GSync, Canceled)
    /\ UNCHANGED <<btVars, firstFailure, diffVars, dlVars, mainVars, mainPc,
                   ignoredCourses, lcPc, lcWorker, lcBatch, coursesC, tcPc, task, treeC>>

\* errgrp.Wait(), then return err, or close(fileToSyncC) and return nil
DC_Wait ==
    /\ Alive
    /\ dcPc = "wait"
    /\ \A c \in CourseIds : dfPc[c] \in {"idle", "returned"}
    /\ dcPc' = "returned"
    /\ WaitReturns(GDc, GSync, gErr[GDc])
    /\ fileToSyncC' = [closed |-> gErr[GDc] = Nil]
    /\ UNCHANGED <<btVars, firstFailure, diffVars, dlJobs, dlReturned, filesSynced, disk, run,
                   stPc, mainVars, mainPc, ignoredCourses, lcPc, lcWorker, lcBatch, coursesC,
                   tcPc, task, treeC>>

\* --- sync's errgrp.Wait() and main (part_000:219-251, 402-418)
\* sync returns errgrp.Wait()'s error; main logs it unless it is context.Canceled,
\* and returns
Sync_Returns ==
    /\ Alive
    /\ lcPc = "returned" /\ tcPc = "returned" /\ dcPc = "returned"
    /\ dlReturned = numDownloaders
    /\ syncResult' = gErr[GSync]
    /\ reported' = IF gErr[GSync] # Canceled THEN gErr[GSync] ELSE Nil
    /\ mainPc' = "returned"
    /\ gCancelled' = [gCancelled EXCEPT ![GSync] = TRUE, ![GMain] = TRUE]
    /\ UNCHANGED <<gErr, btVars, firstFailure, diffVars, dlVars, syncVars, sigPc, signalChan,
                   nSignals, interrupted>>

\* a stage of sync has not returned yet
StagesInFlight ==
    lcPc # "returned" \/ tcPc # "returned" \/ dcPc # "returned" \/ dlReturned < numDownloaders

\* an interrupt signal reaches the process: signal.Notify's channel holds one
Interrupt ==
    /\ Alive
    /\ nSignals < MaxSignals
    /\ nSignals' = nSignals + 1
    /\ signalChan' = 1
    /\ UNCHANGED <<grpVars, btVars, firstFailure, diffVars, dlVars, syncVars, mainPc,
                   syncResult, reported, sigPc, interrupted>>

\* First signal: case <-signalChan: log.Print("Exiting..."); cancel()
Sig_First ==
    /\ Alive
    /\ sigPc = "first"
    /\ signalChan = 1
    /\ signalChan' = 0
    /\ sigPc' = "second"
    /\ gCancelled' = [gCancelled EXCEPT ![GMain] = TRUE]
    /\ interrupted' = (StagesInFlight /\ firstFailure = Nil)
    /\ UNCHANGED <<gErr, btVars, firstFailure, diffVars, dlVars, syncVars, mainPc,
                   syncResult, reported, nSignals>>

\* Second signal: case <-signalChan: os.Exit(1)
Sig_Second ==
    /\ Alive
    /\ sigPc = "second"
    /\ signalChan = 1
    /\ mainPc' = "exited"
    /\ signalChan' = 0
    /\ UNCHANGED <<grpVars, btVars, firstFailure, diffVars, dlVars, syncVars,
                   syncResult, reported, sigPc, nSignals, interrupted>>

\* Second signal: case <-ctx.Done(): return
Sig_SecondDone ==
    /\ Alive
    /\ sigPc = "second"
    /\ CtxDone(GMain)
    /\ sigPc' = "returned"
    /\ UNCHANGED <<grpVars, btVars, firstFailure, diffVars, dlVars, syncVars, mainPc,
                   syncResult, reported, signalChan, nSignals, interrupted>>

\* ------------------------------------------------------------ specifications
InitDiff(started) ==
    /\ dfPc = [c \in CourseIds |-> IF c \in started THEN "walk" ELSE "idle"]
    /\ dfWork = [c \in CourseIds |-> IF c \in started THEN RootCall(dfTree[c]) ELSE <<>>]
    /\ dfLog = {}
    /\ emitted = {}
InitPool ==
    /\ fileToSyncC = [closed |-> FALSE]
    /\ dlJobs = {}
    /\ dlReturned = 0
    /\ filesSynced = 0
    /\ run = 1
InitSyncIdle ==
    /\ ignoredCourses = {}
    /\ lcPc = "idle"
    /\ lcWorker = [p \in CourseIds |-> "idle"]
    /\ lcBatch = [p \in CourseIds |-> <<>>]
    /\ coursesC = [closed |-> FALSE]
    /\ tcPc = "idle"
    /\ task = [c \in CourseIds |-> "idle"]
    /\ treeC = [closed |-> FALSE]
    /\ dcPc = "idle"
InitMain ==
    /\ mainPc = "running"
    /\ syncResult = Nil
    /\ reported = Nil
    /\ sigPc = "first"
    /\ signalChan = 0
    /\ nSignals = 0
    /\ interrupted = FALSE

\* BuildTree(ctx, api, course 1) has been called.
InitBuild ==
    /\ InitGroups /\ InitBt({1}) /\ InitSyncIdle /\ InitMain /\ InitPool
    /\ dfTree = [c \in CourseIds |-> NoTree]
    /\ InitDiff({})
    /\ disk = <<>>
    /\ stPc = "idle"
NextBuild == BuildTreeStep(1) \/ CallerCancels
SpecBuild == InitBuild /\ [][NextBuild]_vars

\* SyncTree(ctx, api, tree, rootDirectory) has been called.
InitSyncTree ==
    /\ InitGroups /\ InitBt({}) /\ InitSyncIdle /\ InitMain /\ InitPool
    /\ \E tree \in DiffTrees :
          /\ dfTree = [c \in CourseIds |-> IF c = 1 THEN tree ELSE NoTree]
          /\ disk \in DiffDisks(tree)
    /\ InitDiff({1})
    /\ stPc = "wait"
NextDiff ==
    \/ DF_Folder(1, GSt) \/ DF_File(1, GSt) \/ DF_Send(1) \/ DF_SendCancel(1, GSt)
    \/ DF_Return(1, GSt, TRUE)
    \/ DL_Cancel(GSt) \/ DL_Closed
    \/ \E job \in dlJobs : DL_FsStep(GSt, job)
    \/ \E job \in dlJobs : DL_Xfer(GSt, job)
    \/ \E job \in dlJobs : DL_XferAbort(GSt, job)
    \/ ST_Wait
SpecDiff == InitSyncTree /\ [][NextDiff]_vars

\* SyncTree(ctx, api, tree, rootDirectory) has been called on a tree of one folder
\* with more files than there are downloaders. The downloaders are scheduled one at a
\* time: the one holding the record received first takes the next step.
PoolFolders == <<Folder(1, 0, MaxPoolFiles)>>
PoolFiles ==
    [i \in 1..MaxPoolFiles |->
        [Id |-> i, FolderId |-> 1, FileName |-> ToString(i), Size |-> 1, UpdatedAt |-> 1]]
PoolTree == NewCourseTree(1, PoolFolders, PoolFiles, <<1>>).tree
PoolDisks == {DiskOf(PoolTree, dirs, [i \in 1..MaxPoolFiles |-> "none"]) : dirs \in {{}, {1}}}
Oldest(job) == \A other \in dlJobs : job.rec.File.Id <= other.rec.File.Id
InitPoolRun ==
    /\ InitGroups /\ InitBt({}) /\ InitSyncIdle /\ InitMain /\ InitPool
    /\ dfTree = [c \in CourseIds |-> IF c = 1 THEN PoolTree ELSE NoTree]
    /\ disk \in PoolDisks
    /\ InitDiff({1})
    /\ stPc = "wait"
NextPool ==
    \/ DF_Folder(1, GSt) \/ DF_File(1, GSt) \/ DF_Send(1) \/ DF_SendCancel(1, GSt)
    \/ DF_Return(1, GSt, TRUE)
    \/ DL_Cancel(GSt) \/ DL_Closed
    \/ \E job \in {j \in dlJobs : Oldest(j)} : DL_FsStep(GSt, job)
    \/ \E job \in {j \in dlJobs : Oldest(j)} : DL_Xfer(GSt, job)
    \/ \E job \in {j \in dlJobs : Oldest(j)} : DL_XferAbort(GSt, job)
    \/ ST_Wait
SpecPool == InitPoolRun /\ [][NextPool]_vars

\* BuildTree(ctx, api, course 1) has been called on a course whose listings have more
\* pages than a channel has room for: MaxDrain folder pages of folders without files,
\* one folder with MaxDrain file pages, or 2 * MaxDrain folders with one file page
\* each (enough to fill the folder-id channel and the file channel at once); and on
\* a course of three folder pages of which the second folder only has files. No fetch
\* fails, every listing has all the pages of its shape, and the context is not
\* cancelled.
DrainShapes ==
    {[pages |-> 1..MaxDrain,       filePages |-> {}],
     [pages |-> 1..1,              filePages |-> {1} \X (1..MaxDrain)],
     [pages |-> 1..(2 * MaxDrain), filePages |-> (1..(2 * MaxDrain)) \X {1}],
     [pages |-> 1..3,              filePages |-> {<<2, 1>>}]}
\* the folder of page p: folder 1 is the root, the others are its children; it has
\* files when it has a file listing
DrainFolder(p) ==
    Folder(p, IF p = 1 THEN 0 ELSE 1, IF <<p, 1>> \in DOMAIN lffWorker[1] THEN 1 ELSE 0)
\* the file-listing worker started first among those running
OldestWorker(fp) ==
    /\ fp \in DOMAIN lffWorker[1]
    /\ Active(lffWorker[1][fp])
    /\ \A other \in DOMAIN lffWorker[1] : Active(lffWorker[1][other]) => fp[1] <= other[1]
InitDrain ==
    /\ InitGroups /\ InitSyncIdle /\ InitMain /\ InitPool
    /\ \E shape \in DrainShapes : InitBtOn({1}, shape.pages, shape.filePages)
    /\ dfTree = [c \in CourseIds |-> NoTree]
    /\ InitDiff({})
    /\ disk = <<>>
    /\ stPc = "idle"
NextDrain ==
    \/ TB_RecvFolders(1) \/ TB_FoldersClosed(1) \/ TB_Append(1)
    \/ TB_SendId(1) \/ TB_RecvFiles(1) \/ TB_FilesClosed(1)
    \/ \E p \in DOMAIN lfWorker[1] :
          LF_Fetch(1, p) /\ firstFailure' = Nil /\ lfBatch'[1][p] = <<DrainFolder(p)>>
    \/ \E p \in DOMAIN lfWorker[1] :
          LF_Send(1, p) /\ (p + 1 \in DOMAIN lfWorker[1] => lfWorker'[1][p + 1] = "fetch")
    \/ LF_Wait(1)
    \/ LFF_Recv(1) \/ LFF_Closed(1)
    \/ \E fp \in {q \in DOMAIN lffWorker[1] : OldestWorker(q)} :
          LFF_Fetch(1, fp) /\ firstFailure' = Nil
    \/ \E fp \in {q \in DOMAIN lffWorker[1] : OldestWorker(q)} :
          LFF_Send(1, fp) /\ (<<fp[1], fp[2] + 1>> \in DOMAIN lffWorker[1] =>
                                 lffWorker'[1][<<fp[1], fp[2] + 1>>] = "fetch")
    \/ LFF_Wait(1)
SpecDrain == InitDrain /\ [][NextDrain]_vars /\ WF_vars(NextDrain)

\* sync(ctx) has started its stages; main's signal goroutine waits for a signal.
InitSync ==
    /\ InitGroups /\ InitBt({}) /\ InitMain /\ InitPool
    /\ ignoredCourses \in SUBSET CourseIds
    /\ lcPc = "wait"
    /\ lcWorker = [p \in CourseIds |-> IF p = 1 THEN "fetch" ELSE "idle"]
    /\ lcBatch = [p \in CourseIds |-> <<>>]
    /\ coursesC = [closed |-> FALSE]
    /\ tcPc = "loop"
    /\ task = [c \in CourseIds |-> "idle"]
    /\ treeC = [closed |-> FALSE]
    /\ dcPc = "loop"
    /\ dfTree = [c \in CourseIds |-> NoTree]
    /\ InitDiff({})
    /\ disk = <<>>
    /\ stPc = "idle"

\* the steps the remote server takes: it answers a request
ServerStep ==
    \/ \E p \in CourseIds : LC_Fetch(p)
    \/ \E c \in CourseIds, p \in FolderIds : LF_Fetch(c, p)
    \/ \E c \in CourseIds, fp \in FilePageIds : LFF_Fetch(c, fp)
    \/ \E job \in dlJobs : DL_Xfer(GSync, job)

\* the steps the goroutines of the process take
GoStep ==
    \/ \E p \in CourseIds : LC_Send(p)
    \/ \E p \in CourseIds : LC_SendCancel(p)
    \/ LC_Wait
    \/ TC_Closed \/ TC_LoopCancel \/ TC_Wait
    \/ \E c \in CourseIds : Task_Built(c)
    \/ \E c \in CourseIds : Task_Send(c)
    \/ \E c \in CourseIds : Task_SendCancel(c)
    \/ \E c \in CourseIds :
          \/ TB_Cancel(c) \/ TB_RecvFolders(c) \/ TB_FoldersClosed(c) \/ TB_Append(c)
          \/ TB_SendId(c) \/ TB_RecvFiles(c) \/ TB_FilesClosed(c)
          \/ \E p \in FolderIds : LF_Send(c, p) \/ LF_SendCancel(c, p)
          \/ LF_Wait(c)
          \/ LFF_Recv(c) \/ LFF_Closed(c) \/ LFF_LoopCancel(c)
          \/ \E fp \in FilePageIds : LFF_Send(c, fp) \/ LFF_SendCancel(c, fp)
          \/ LFF_Wait(c)
          \/ BT_Wait(c)
    \/ DC_Closed \/ DC_LoopCancel \/ DC_Wait
    \/ \E c \in CourseIds : DF_Folder(c, GDc)
    \/ \E c \in CourseIds : DF_File(c, GDc)
    \/ \E c \in CourseIds : DF_Send(c)
    \/ \E c \in CourseIds : DF_SendCancel(c, GDc)
    \/ \E c \in CourseIds : DF_Return(c, GDc, FALSE)
    \/ DL_Cancel(GSync) \/ DL_Closed
    \/ \E job \in dlJobs : DL_FsStep(GSync, job)
    \/ \E job \in dlJobs : DL_XferAbort(GSync, job)
    \/ Sync_Returns
    \/ Sig_First \/ Sig_Second \/ Sig_SecondDone

NextSync == ServerStep \/ GoStep \/ Interrupt
SpecSync == InitSync /\ [][NextSync]_vars
\* Every step a goroutine can take is eventually taken; nothing makes the server answer.
SpecSyncFair == SpecSync /\ WF_vars(GoStep)

\* The flat lists BuildTree may hand to NewCourseTree: folders of distinct ids under
\* any parent ids, files of distinct ids in any folder ids, in any order.
Injective(sq) == \A i, j \in DOMAIN sq : sq[i].Id = sq[j].Id => i = j
TreeFolderLists ==
    {fs \in UNION {[1..k -> [Id : 1..MaxTreeFolders, ParentId : 0..MaxTreeFolders,
                             Name : {FolderNames[i] : i \in 1..MaxTreeFolders},
                             FilesCount : {1}]] : k \in 0..MaxTreeFolders} :
        /\ Injective(fs)
        /\ \A i \in DOMAIN fs : fs[i].Name = FolderNames[fs[i].Id]}
TreeFileLists ==
    {fl \in UNION {[1..k -> [Id : 1..MaxTreeFiles, FolderId : 1..MaxTreeFolders,
                             FileName : {"f"}, Size : {1}, UpdatedAt : {1}]] :
                       k \in 0..MaxTreeFiles} :
        Injective(fl)}

\* The three stages of BuildTree(ctx, api, course 1) have returned nil, having
\* collected flatFolders and flatFiles; errgrp.Wait() and NewCourseTree follow.
InitTree ==
    /\ InitGroups /\ InitSyncIdle /\ InitMain /\ InitPool
    /\ dfTree = [c \in CourseIds |-> NoTree]
    /\ InitDiff({})
    /\ disk = <<>>
    /\ stPc = "idle"
    /\ btPc = [c \in CourseIds |-> IF c = 1 THEN "wait" ELSE "idle"]
    /\ btResult = [c \in CourseIds |-> NoResult]
    /\ foldersC = [c \in CourseIds |-> [buf |-> <<>>, closed |-> c = 1]]
    /\ filesC = [c \in CourseIds |-> [buf |-> <<>>, closed |-> c = 1]]
    /\ folderC = [c \in CourseIds |-> [buf |-> <<>>, closed |-> c = 1]]
    /\ tbPc = [c \in CourseIds |-> IF c = 1 THEN "returned" ELSE "idle"]
    /\ tbFoldersNil = [c \in CourseIds |-> c = 1]
    /\ tbPending = [c \in CourseIds |-> <<>>]
    /\ \E fs \in TreeFolderLists :
          flatFolders = [c \in CourseIds |-> IF c = 1 THEN fs ELSE <<>>]
    /\ \E fl \in TreeFileLists :
          flatFiles = [c \in CourseIds |-> IF c = 1 THEN fl ELSE <<>>]
    /\ lfPc = [c \in CourseIds |-> IF c = 1 THEN "returned" ELSE "idle"]
    /\ lfWorker = [c \in CourseIds |-> [p \in FolderIds |-> "idle"]]
    /\ lfBatch = [c \in CourseIds |-> [p \in FolderIds |-> <<>>]]
    /\ lffPc = [c \in CourseIds |-> IF c = 1 THEN "returned" ELSE "idle"]
    /\ lffWorker = [c \in CourseIds |-> [fp \in FilePageIds |-> "idle"]]
    /\ lffBatch = [c \in CourseIds |-> [fp \in FilePageIds |-> <<>>]]
    /\ firstFailure = Nil
NextTree == BT_Wait(1)
SpecTree == InitTree /\ [][NextTree]_vars

\* ------------------------------------------------------------------ properties
\* --- sync and main (SpecSync, SpecSyncFair)

\* C1: in a run without an interrupt signal, once main has returned after some stage
\* failed with an error E, sync returned that first failure E and main reported it.
FirstFailureReturned ==
    (mainPc = "returned" /\ nSignals = 0 /\ firstFailure # Nil)
        => (syncResult = firstFailure /\ reported = firstFailure)

\* C2: when BuildTree returns after a folder-page or file-page fetch failed with E, and
\* its caller did not cancel it, it returns E itself.
BuildTreeReturnsFailure ==
    (btPc[1] = "returned" /\ ~gCancelled[GMain] /\ firstFailure \in {ErrFolders, ErrFiles})
        => btResult[1].err = firstFailure

\* C3: once the first interrupt has been handled, a further interrupt that is pending
\* while sync is still unwinding has the signal goroutine listening for it.
SecondSignalHasListener ==
    (sigPc # "first" /\ signalChan = 1 /\ mainPc = "running") => sigPc = "second"

\* C4: once the shared context is cancelled while stages are in flight, sync eventually
\* returns (or the process ends), whatever the server does.
CancelledRunTerminates == (gCancelled[GMain] /\ StagesInFlight) ~> ~Alive

\* C5: when an interrupt cancelled the shared context while stages were in flight and
\* nothing had failed, the error sync returns is context.Canceled.
InterruptedRunReturnsCanceled ==
    (mainPc = "returned" /\ interrupted) => syncResult = Canceled

\* C6: a listing page fetch (of courses, folders or files) that completes while its
\* context is cancelled does not run to completion: its worker never goes on to send
\* the page.
ListingFetchIsCancellationPoint ==
    [][/\ \A p \in CourseIds :
             (lcWorker[p] = "fetch" /\ CtxDone(GLc)) => lcWorker'[p] # "send"
       /\ \A c \in CourseIds, p \in FolderIds :
             (lfWorker[c][p] = "fetch" /\ CtxDone(GLf(c))) => lfWorker'[c][p] # "send"
       /\ \A c \in CourseIds, fp \in FilePageIds :
             (lffWorker[c][fp] = "fetch" /\ CtxDone(GLff(c))) => lffWorker'[c][fp] # "send"
      ]_vars

\* --- filesToSync and SyncTree (SpecDiff)
DiffTree == dfTree[1]
FileById(id) == CHOOSE f \in TreeFiles(DiffTree) : f.Id = id
\* the traversal of the current run has returned and all its records were received
Completed == dfPc[1] = "returned" /\ dfWork[1] = <<>>
\* a is on the chain of folders from the root down to d
Under(a, d) == \E i \in DOMAIN FolderChain(DiffTree, d) : FolderChain(DiffTree, d)[i] = a
FolderFound(r, id) ==
    \E lf \in dfLog : lf.run = r /\ lf.kind = "folder" /\ lf.id = id /\ lf.probed
                        /\ lf.fi.kind # "absent"
FolderAbsent(r, id) ==
    \E lf \in dfLog : lf.run = r /\ lf.kind = "folder" /\ lf.id = id /\ lf.probed
                        /\ lf.fi.kind = "absent"
Sent(r, id) == \E e \in emitted : e.run = r /\ e.rec.File.Id = id
\* the path with the names of all folders of the chain, the root folder's included
PathWithRootName(file) ==
    LET chain == FolderChain(DiffTree, file.FolderId)
    IN  Join(<<RootDirectory, CourseNames[DiffTree.Course]>>
             \o [i \in 1..Len(chain) |-> NameOf(DiffTree, chain[i])]
             \o <<file.FileName>>)
Differs(file, fi) == fi.kind = "absent" \/ fi.mtime # file.UpdatedAt \/ fi.size # file.Size
PathsDistinct ==
    \A f, h \in TreeFiles(DiffTree) : f # h => FilePath(DiffTree, f) # FilePath(DiffTree, h)

\* C7, as stated: the Path of every emitted record joins rootDirectory, the course's
\* name, the names of all folders from the root folder down to the file's folder (the
\* root folder's name included) and the file's name.
PathIncludesRootFolderName == \A e \in emitted : e.rec.Path = PathWithRootName(e.rec.File)

\* C7, amended: the Path of every emitted record joins rootDirectory, the course's name,
\* the names of the folders below the root folder down to the file's folder, and the
\* file's name; the root folder is the course's directory itself.
PathSkipsRootFolderName == \A e \in emitted : e.rec.Path = FilePath(DiffTree, e.rec.File)

\* records were emitted for a file of the root folder and for a file of a child folder
PathWitness ==
    /\ \E e \in emitted : e.rec.File.FolderId = DiffTree.root
    /\ \E e \in emitted : e.rec.File.FolderId # DiffTree.root

\* C8: a file whose folder was found on disk is probed, and is decided for emission
\* exactly when it is absent or differs in modification time or in size; when the
\* traversal runs to completion the record of every such decision was sent.
EmitsIffDiffers ==
    \A l \in dfLog :
        (l.kind = "file" /\ FolderFound(l.run, FileById(l.id).FolderId)) =>
            /\ l.probed
            /\ l.emit <=> Differs(FileById(l.id), l.fi)
            /\ (Completed /\ l.run = run) => (l.emit <=> Sent(l.run, l.id))

\* a completed traversal that found one file up to date and another one differing in
\* size or time
EmitsWitness ==
    /\ Completed
    /\ \E l \in dfLog : l.kind = "file" /\ l.run = run /\ l.probed /\ ~l.emit
    /\ \E l \in dfLog : l.kind = "file" /\ l.run = run /\ l.probed /\ l.emit
                          /\ l.fi.kind = "file" /\ Sent(l.run, l.id)

\* C9: when a folder is found absent, no folder below it and no file in or below it is
\* probed, every such file is decided for emission, and when the traversal runs to
\* completion every file in or below the folder was emitted.
AbsentFolderEmitsAll ==
    \A a \in DOMAIN DiffTree.nodes : \A r \in 1..2 :
        FolderAbsent(r, a) =>
            /\ \A l \in dfLog :
                  (l.run = r /\ l.kind = "folder" /\ l.id # a /\ Under(a, l.id)) => ~l.probed
            /\ \A l \in dfLog :
                  (l.run = r /\ l.kind = "file" /\ Under(a, FileById(l.id).FolderId))
                      => (~l.probed /\ l.emit)
            /\ (Completed /\ r = run) =>
                  \A f \in TreeFiles(DiffTree) :
                      Under(a, f.FolderId) => \E e \in emitted : e.run = r /\ e.rec.File = f

\* a completed traversal that found a folder absent and went through a folder below it
\* that holds a file
AbsentWitness ==
    /\ Completed
    /\ \E a \in DOMAIN DiffTree.nodes :
          /\ FolderAbsent(run, a)
          /\ \E l \in dfLog : l.run = run /\ l.kind = "folder" /\ l.id # a /\ Under(a, l.id)
          /\ \E f \in TreeFiles(DiffTree) : f.FolderId # a /\ Under(a, f.FolderId)

\* C10, as stated: a second run after a successful first run emits no file.
SecondRunEmitsNothing == \A e \in emitted : e.run = 1

\* C10, amended: when no two remote files have the same local path, a second run after
\* a successful first run emits no file.
SecondRunEmitsNothingDistinct == PathsDistinct => \A e \in emitted : e.run # 2

\* the second run has returned, after a first run that wrote two files of distinct paths
SecondRunWitness ==
    /\ run = 2 /\ stPc = "returned" /\ syncResult = Nil
    /\ PathsDistinct
    /\ Cardinality({e.rec.File : e \in emitted}) = 2

\* --- the downloaders' writes (SpecDiff)
EntryAt(d, path) == IF path \in DOMAIN d THEN d[path] ELSE Absent
\* the file as the remote listing has it, wholly written
Complete(file) == [kind |-> "file", size |-> file.Size, mtime |-> file.UpdatedAt]
DestinationPaths == {FilePath(DiffTree, f) : f \in TreeFiles(DiffTree)}

\* C11: whatever a downloader does, and whether or not it fails or is cancelled, a
\* step leaves every destination path as it was or puts there the whole file of a
\* remote file of that path, with its size and time: no step makes a partly written
\* file visible at a destination path.
DestinationWholeOrUnchanged ==
    [][\A path \in DestinationPaths :
          EntryAt(disk', path) # EntryAt(disk, path) =>
              \E f \in TreeFiles(DiffTree) :
                  /\ FilePath(DiffTree, f) = path
                  /\ EntryAt(disk', path) = Complete(f)]_vars

\* a download failed after its temporary file was written, another one was renamed
\* into place, and a destination path holds what it held before the first run
DestinationWitness ==
    /\ firstFailure \in {ErrDownload, ErrFs}
    /\ filesSynced > 0
    /\ run = 1
    /\ \E f \in TreeFiles(DiffTree) :
          /\ EntryAt(disk, FilePath(DiffTree, f)).kind = "file"
          /\ EntryAt(disk, FilePath(DiffTree, f)) # Complete(f)

\* --- NewCourseTree (SpecTree)
InFolders == flatFolders[1]
InFiles == flatFiles[1]
\* BuildTree has come back from NewCourseTree, or has panicked in it
Built == btPc[1] \in {"returned", "panicked"}
Roots == {i \in DOMAIN InFolders : InFolders[i].ParentId = 0}
DuplicateRoot == Cardinality(Roots) >= 2
MissingParent ==
    \E i \in DOMAIN InFolders :
        InFolders[i].ParentId # 0 /\ InFolders[i].ParentId \notin Ids(InFolders)
OrphanFile == \E j \in DOMAIN InFiles : InFiles[j].FolderId \notin Ids(InFolders)
ParentOf(id) == InFolders[CHOOSE i \in DOMAIN InFolders : InFolders[i].Id = id].ParentId
RECURSIVE ReachesRoot(_, _)
ReachesRoot(id, k) ==
    IF ParentOf(id) = 0 THEN TRUE
    ELSE IF k = 0 THEN FALSE ELSE ReachesRoot(ParentOf(id), k - 1)
\* the folders form one tree and every file is in one of them
Valid ==
    /\ Cardinality(Roots) = 1
    /\ ~MissingParent
    /\ ~OrphanFile
    /\ \A id \in Ids(InFolders) : ReachesRoot(id, Len(InFolders))
SeqSet(sq) == {sq[i] : i \in DOMAIN sq}

\* C12: given two folders of parent id 0, or a folder whose parent id is the id of no
\* folder, NewCourseTree returns an error and no tree, whatever the order of the
\* folders and the order the map iteration takes.
StructuralErrorsRejected ==
    (Built /\ (DuplicateRoot \/ MissingParent)) =>
        (btPc[1] = "returned" /\ btResult[1] = [err |-> ErrTree, tree |-> NoTree])

\* NewCourseTree was given one root and a folder of unknown parent, and a file
RejectedWitness ==
    /\ Built
    /\ firstFailure = ErrTree
    /\ ~DuplicateRoot /\ Roots # {}
    /\ MissingParent
    /\ Len(InFolders) >= 2
    /\ InFiles # <<>>

\* C13: given a file whose folder id is the id of no folder, BuildTree returns the
\* structural error.
OrphanFileIsAnError ==
    (Built /\ OrphanFile) => (btPc[1] = "returned" /\ btResult[1].err = ErrTree)

\* C14: a tree returned without error has a root, and exactly one folder of parent
\* id 0 was given.
ReturnedTreeHasRoot ==
    (btPc[1] = "returned" /\ btResult[1].err = Nil) =>
        (btResult[1].tree.root # 0 /\ Cardinality(Roots) = 1)

\* C15: given folders that form one tree and files of those folders, in any order of
\* the folders, of the files and of the map iteration, the tree returned has the
\* given folders, under each folder exactly the folders whose parent it is and
\* exactly the files whose folder it is, each once, and Traverse visits each folder
\* exactly once.
TreeIndependentOfOrder ==
    (Built /\ Valid) =>
        /\ btPc[1] = "returned" /\ btResult[1].err = Nil
        /\ LET tree == btResult[1].tree
           IN  /\ tree.Course = 1
               /\ DOMAIN tree.nodes = Ids(InFolders)
               /\ tree.nodes[tree.root].Folder.ParentId = 0
               /\ \A id \in DOMAIN tree.nodes :
                     LET children == {f.Id : f \in {g \in SeqSet(InFolders) : g.ParentId = id}}
                         files == {f \in SeqSet(InFiles) : f.FolderId = id}
                     IN  /\ tree.nodes[id].Folder \in SeqSet(InFolders)
                         /\ tree.nodes[id].Folder.Id = id
                         /\ SeqSet(tree.nodes[id].folders) = children
                         /\ Len(tree.nodes[id].folders) = Cardinality(children)
                         /\ SeqSet(tree.nodes[id].files) = files
                         /\ Len(tree.nodes[id].files) = Cardinality(files)
               /\ SeqSet(Traverse(tree)) = Ids(InFolders)
               /\ Len(Traverse(tree)) = Cardinality(Ids(InFolders))

\* a tree was built from three folders of which a child came before its parent, and
\* from two files
OrderWitness ==
    /\ Built /\ Valid
    /\ Len(InFolders) >= 3
    /\ InFolders[1].ParentId # 0
    /\ Len(InFiles) >= 2

\* --- the paginated fetchers (SpecSync)
Delivered(batch, lists) == \A i \in DOMAIN batch : \E l \in lists : batch[i] \in SeqSet(l)
\* the folders still in foldersC, and the files still in filesC
Buffered(ch) == {ch.buf[i] : i \in DOMAIN ch.buf}

\* C16, as stated: a paginated fetcher never closes its output channel once the
\* context it was given is cancelled.
NeverClosedOnceCancelled ==
    [][/\ (~coursesC.closed /\ coursesC'.closed) => ~CtxDone(GSync)
       /\ \A c \in CourseIds :
             /\ (~foldersC[c].closed /\ foldersC'[c].closed) => ~CtxDone(GBt(c))
             /\ (~filesC[c].closed /\ filesC'[c].closed) => ~CtxDone(GBt(c))
      ]_vars

\* C16, amended: when the output channel of a paginated fetcher is closed, no page
\* fetch of it is under way, none has failed and no worker of it has returned on
\* cancellation (its errgroup holds no error), and the batch of every page it
\* fetched was handed to the channel; the fetcher of files has moreover received
\* the close of the channel of folder ids.
ClosedOnlyWhenComplete ==
    /\ coursesC.closed =>
          /\ gErr[GLc] = Nil
          /\ \A p \in CourseIds : ~Active(lcWorker[p])
          /\ \A p \in CourseIds :
                lcWorker[p] = "returned" =>
                    \A c \in Synced(lcBatch[p]) : btPc[c] # "idle"
    /\ \A c \in CourseIds :
          /\ foldersC[c].closed =>
                /\ gErr[GLf(c)] = Nil
                /\ \A p \in FolderIds : ~Active(lfWorker[c][p])
                /\ \A p \in FolderIds :
                      lfWorker[c][p] = "returned" =>
                          Delivered(lfBatch[c][p],
                                    Buffered(foldersC[c]) \cup {flatFolders[c], tbPending[c]})
          /\ filesC[c].closed =>
                /\ gErr[GLff(c)] = Nil
                /\ folderC[c].closed /\ folderC[c].buf = <<>>
                /\ \A fp \in FilePageIds : ~Active(lffWorker[c][fp])
                /\ \A fp \in FilePageIds :
                      lffWorker[c][fp] = "returned" =>
                          Delivered(lffBatch[c][fp], Buffered(filesC[c]) \cup {flatFiles[c]})

\* the course lister and, for one course, the folder and the file lister have closed
\* their channels after the batches of their pages reached the flat lists
ClosedWitness ==
    /\ coursesC.closed
    /\ \E c \in CourseIds :
          /\ foldersC[c].closed /\ filesC[c].closed
          /\ flatFolders[c] # <<>> /\ flatFiles[c] # <<>>

\* --- ignored courses (SpecSync)
\* nothing of sync has touched course c
Untouched(c) ==
    /\ btPc[c] = "idle" /\ lfPc[c] = "idle" /\ lffPc[c] = "idle" /\ tbPc[c] = "idle"
    /\ \A p \in FolderIds : lfWorker[c][p] = "idle"
    /\ \A fp \in FilePageIds : lffWorker[c][fp] = "idle"
    /\ task[c] = "idle"
    /\ dfTree[c] = NoTree /\ dfPc[c] = "idle"
    /\ \A lf \in dfLog : lf.c # c
    /\ \A e \in emitted : e.c # c
    /\ \A job \in dlJobs : job.c # c
    /\ \A q \in DOMAIN disk :
          ~(Len(q) >= 2 /\ SubSeq(q, 1, 2) = <<RootDirectory, CourseNames[c]>>)
FetchedFolders(c) ==
    UNION {SeqSet(lfBatch[c][p]) : p \in {q \in FolderIds : lfWorker[c][q] # "idle"}}
FetchedFiles(c) ==
    UNION {SeqSet(lffBatch[c][fp]) : fp \in {q \in FilePageIds : lffWorker[c][q] # "idle"}}
\* the tree builder goroutine has returned nil
BuilderDone(c) == tbPc[c] = "returned" /\ gErr[GBt(c)] = Nil

\* C20: the file channel is closed only after the folder-id channel, the folder-id
\* channel only after the folder channel was closed and every folder with files was
\* forwarded; when the tree builder returns nil the flat lists hold every folder of
\* every folder page and every file of every file page of every such folder.
BuilderHasEveryBatch ==
    \A c \in CourseIds :
       /\ filesC[c].closed => folderC[c].closed
       /\ folderC[c].closed =>
             /\ foldersC[c].closed /\ foldersC[c].buf = <<>>
             /\ \A p \in FolderIds : lfWorker[c][p] \in {"idle", "returned"}
             /\ SeqSet(flatFolders[c]) = FetchedFolders(c)
             /\ \A f \in FetchedFolders(c) :
                   f.FilesCount > 0 =>
                       \/ f.Id \in Buffered(folderC[c])
                       \/ lffWorker[c][<<f.Id, 1>>] # "idle"
       /\ BuilderDone(c) =>
             /\ filesC[c].closed /\ filesC[c].buf = <<>> /\ folderC[c].buf = <<>>
             /\ SeqSet(flatFolders[c]) = FetchedFolders(c)
             /\ Len(flatFolders[c]) = Cardinality(FetchedFolders(c))
             /\ \A f \in FetchedFolders(c) :
                   f.FilesCount > 0 => lffWorker[c][<<f.Id, 1>>] = "returned"
             /\ \A fp \in FilePageIds : lffWorker[c][fp] \in {"idle", "returned"}
             /\ SeqSet(flatFiles[c]) = FetchedFiles(c)
             /\ Len(flatFiles[c]) = Cardinality(FetchedFiles(c))
\* the tree builder has returned nil with a folder and a file in its lists
BuilderWitness ==
    BuilderDone(1) /\ flatFolders[1] # <<>> /\ flatFiles[1] # <<>>

\* --- the downloader pool (SpecPool)
\* the records held by downloaders
InFlight == Cardinality(dlJobs)
\* C18: at most numDownloaders (10) file transfers are in flight, each downloader
\* handling one record at a time, however many files there are
AtMostTenInFlight ==
    /\ InFlight <= 10
    /\ InFlight + dlReturned <= numDownloaders
    /\ \A j, k \in dlJobs : j.rec = k.rec => j = k
\* ten transfers are in flight and the differ waits with the next record
PoolFullWitness == InFlight = 10 /\ dfPc[1] = "send" /\ dfWork[1] # <<>>

\* --- the termination of BuildTree's stages (SpecDrain)
\* errgrp.Wait() of BuildTree can return: the three stages have returned
StagesReturned(c) == tbPc[c] = "returned" /\ lfPc[c] = "returned" /\ lffPc[c] = "returned"

\* C19: with no fetch failure and no cancellation the stages of BuildTree all return,
\* also when more folder batches, folder ids or file batches are pending than a
\* channel holds
DrainTerminates == <>StagesReturned(1)
\* the tree builder is blocked forwarding a folder id to the full folder-id channel
\* while the file channel is full and a file-listing worker waits to send to it
DrainWitness ==
    /\ tbPc[1] = "send" /\ Len(folderC[1].buf) = n
    /\ Len(filesC[1].buf) = n
    /\ \E fp \in DOMAIN lffWorker[1] : lffWorker[1][fp] = "send"

\* --- the forwarding of folder ids by the tree builder (SpecDrain)
\* how often the id of folder f is in the folder-id channel
Queued(c, f) == Cardinality({i \in DOMAIN folderC[c].buf : folderC[c].buf[i] = f.Id})
\* listFilesInFolders has received the id of folder f and started its chain
ChainStarted(c, f) ==
    <<f.Id, 1>> \in DOMAIN lffWorker[c] /\ lffWorker[c][<<f.Id, 1>>] # "idle"
\* the tree builder is through with folder f of its flat list: it is not in the select
\* that forwards the id of f
Processed(c, f) ==
    \/ tbPc[c] \in {"loop", "iter"}
    \/ tbPc[c] = "send" /\ Head(tbPending[c]) # f
    \/ BuilderDone(c)
\* C21: the tree builder forwards the id of each folder with a file count above zero
\* while it processes the batch holding the folder, before it receives a later batch
\* and whether or not the folder channel is closed; it never forwards a folder
\* without files; each id forwarded starts one file-listing chain.
EagerForwarding ==
    \A c \in CourseIds :
       /\ \A i \in DOMAIN flatFolders[c] :
             LET f == flatFolders[c][i]
             IN  /\ f.FilesCount = 0 => (Queued(c, f) = 0 /\ ~ChainStarted(c, f))
                 /\ (f.FilesCount > 0 /\ Processed(c, f)) =>
                        Queued(c, f) + (IF ChainStarted(c, f) THEN 1 ELSE 0) = 1
                 /\ Queued(c, f) + (IF ChainStarted(c, f) THEN 1 ELSE 0) <= 1
       /\ \A i \in DOMAIN folderC[c].buf :
             \E j \in DOMAIN flatFolders[c] : flatFolders[c][j].Id = folderC[c].buf[i]
       /\ \A fp \in DOMAIN lffWorker[c] :
             lffWorker[c][fp] # "idle" =>
                 \E j \in DOMAIN flatFolders[c] : flatFolders[c][j].Id = fp[1]
\* the id of the second folder is forwarded while the folder channel is open and the
\* third folder page is not yet received, the first folder having no files
ForwardingWitness ==
    /\ DOMAIN lfWorker[1] = 1..3
    /\ Len(flatFolders[1]) = 2
    /\ flatFolders[1][1].FilesCount = 0 /\ flatFolders[1][2].FilesCount > 0
    /\ folderC[1].buf = <<2>>
    /\ ~foldersC[1].closed /\ ~tbFoldersNil[1]
    /\ lfWorker[1][3] = "fetch"

\* --- goroutines outliving the operation that started them (SpecSync)
\* a page worker of BuildTree(course c) is running
WorkerRunning(c) ==
    \/ \E p \in DOMAIN lfWorker[c] : Active(lfWorker[c][p])
    \/ \E fp \in DOMAIN lffWorker[c] : Active(lffWorker[c][fp])
\* a goroutine started by a coordinator of sync, or by a lister, is running
StartedRunning ==
    \/ \E p \in DOMAIN lcWorker : Active(lcWorker[p])
    \/ \E c \in CourseIds : task[c] \in {"build", "send"} \/ dfPc[c] \in {"walk", "send"}
    \/ \E c \in CourseIds : WorkerRunning(c)

\* C22: when BuildTree or sync has returned a failure, every goroutine started for it
\* has returned.
NoGoroutineOutlivesFailure ==
    /\ \A c \in CourseIds :
          (btPc[c] = "returned" /\ btResult[c].err # Nil) => ~WorkerRunning(c)
    /\ (mainPc = "returned" /\ syncResult # Nil) => ~StartedRunning

\* --- the order of a downloader's steps (SpecDiff)
TempEntry(job) == EntryAt(disk, TempPath(job.rec.Path, job.rec.File))
\* C23: a file comes to its destination path only by the rename of a temporary file
\* that holds the whole content and, set after the content was written, the remote
\* modification time; the file published has the remote modification time.
PublishedAfterTimestamp ==
    [][/\ \A job \in dlJobs :
             /\ job.pc = "chtimes" =>
                   /\ TempEntry(job).size = job.rec.File.Size
                   /\ TempEntry(job).mtime # job.rec.File.UpdatedAt
             /\ job.pc = "rename" => TempEntry(job) = Complete(job.rec.File)
       /\ \A path \in DestinationPaths :
             EntryAt(disk', path) # EntryAt(disk, path) =>
                 \E job \in dlJobs :
                    /\ job.rec.Path = path /\ job.pc = "rename" /\ job \notin dlJobs'
                    /\ EntryAt(disk', path) = TempEntry(job)
                    /\ EntryAt(disk', path).mtime = job.rec.File.UpdatedAt]_vars
\* a record emitted in the first run was published: its path holds the whole file
\* with the remote modification time, where the disk held something else at the start
PublishedWitness ==
    /\ run = 1 /\ filesSynced > 0
    /\ \E e \in emitted :
          /\ \A job \in dlJobs : job.rec # e.rec
          /\ EntryAt(disk, e.rec.Path) = Complete(e.rec.File)

\* --- the page fetches of one pagination chain (SpecDrain)
\* the page fetches in flight of the folder listing, and of the file listing of
\* folder f
FolderFetches(c) == {p \in DOMAIN lfWorker[c] : lfWorker[c][p] = "fetch"}
FileFetches(c, f) == {fp \in DOMAIN lffWorker[c] : fp[1] = f /\ lffWorker[c][fp] = "fetch"}

\* C24, as stated: the fetch started for a next-page link runs while another page
\* fetch of the same chain is in flight.
NextPageFetchOverlaps ==
    [][\A c \in CourseIds :
          /\ \A p \in DOMAIN lfWorker[c] :
                (p > 1 /\ lfWorker[c][p] = "idle" /\ lfWorker'[c][p] = "fetch") =>
                    Cardinality(FolderFetches(c)') >= 2
          /\ \A fp \in DOMAIN lffWorker[c] :
                (fp[2] > 1 /\ lffWorker[c][fp] = "idle" /\ lffWorker'[c][fp] = "fetch") =>
                    Cardinality(FileFetches(c, fp[1])') >= 2]_vars

\* C24, amended: in one chain at most one page fetch is in flight at a time; the
\* fetch of a page is started only after the fetch of the page before it has returned
\* and its batch was handed to the channel.
ChainIsSequential ==
    \A c \in CourseIds :
       /\ Cardinality(FolderFetches(c)) <= 1
       /\ \A p \in DOMAIN lfWorker[c] :
             (p > 1 /\ lfWorker[c][p] # "idle") =>
                 /\ lfWorker[c][p - 1] \notin {"idle", "fetch"}
                 /\ Delivered(lfBatch[c][p - 1], Buffered(foldersC[c])
                                \cup {tbPending[c], flatFolders[c]})
       /\ \A fp \in DOMAIN lffWorker[c] :
             /\ Cardinality(FileFetches(c, fp[1])) <= 1
             /\ (fp[2] > 1 /\ lffWorker[c][fp] # "idle") =>
                   /\ lffWorker[c][<<fp[1], fp[2] - 1>>] \notin {"idle", "fetch"}
                   /\ Delivered(lffBatch[c][<<fp[1], fp[2] - 1>>],
                                Buffered(filesC[c]) \cup {flatFiles[c]})
\* the third page of the file listing of a folder is being fetched, the workers of
\* the first two pages have returned and their batches wait in the file channel
SequentialWitness ==
    /\ <<1, 3>> \in DOMAIN lffWorker[1] /\ lffWorker[1][<<1, 3>>] = "fetch"
    /\ lffWorker[1][<<1, 1>>] = "returned" /\ lffWorker[1][<<1, 2>>] = "returned"
    /\ Len(filesC[1].buf) = 2

\* --- the records handed from the differs to the downloaders
\* the records the differs have sent in the current run
EmittedNow == {e \in emitted : e.run = run}
\* no downloader has returned a failure or a cancellation
PoolUnfailed == gErr[GSync] = Nil /\ gErr[GSt] = Nil

CoursesCQuiet == lcPc = "returned" /\ \A p \in DOMAIN lcWorker : ~Active(lcWorker[p])
\* the same for the channel of folder batches of course c
FoldersCQuiet(c) == lfPc[c] = "returned" /\ \A p \in DOMAIN lfWorker[c] : ~Active(lfWorker[c][p])
\* the tree builder of course c, the one sender of folder ids, took the branch that
\* closes the channel (it set foldersC to nil) and has no folder left to forward
FolderCQuiet(c) ==
    /\ tbFoldersNil[c]
    /\ tbPc[c] \notin {"iter", "send"}
    /\ tbPending[c] = <<>>
\* the same for the channel of file batches of course c
FilesCQuiet(c) ==
    /\ lffPc[c] = "returned"
    /\ \A fp \in DOMAIN lffWorker[c] : ~Active(lffWorker[c][fp])
\* the tree coordinator has returned and every task it started has returned
TreeCQuiet == tcPc = "returned" /\ \A c \in CourseIds : task[c] \in {"idle", "returned"}
\* the diff coordinator has returned and every filesToSync it started has returned
FileToSyncCQuiet == dcPc = "returned" /\ \A c \in CourseIds : dfPc[c] \in {"idle", "returned"}

\* C26: no goroutine sends on a closed channel and no channel is closed twice: whenever
\* one of coursesC, foldersC, folderC, filesC, treeC and fileToSyncC is closed, its one
\* closer has gone past the close for good and every goroutine that sends on it has
\* finished sending, none being left that could start another sender; filesToSync
\* never closes fileToSyncC, which is open as long as the diff coordinator runs.
ClosedOnceAfterSenders ==
    /\ coursesC.closed => CoursesCQuiet
    /\ treeC.closed => TreeCQuiet
    /\ fileToSyncC.closed => FileToSyncCQuiet
    /\ dcPc # "returned" => ~fileToSyncC.closed
    /\ \A c \in CourseIds :
          /\ foldersC[c].closed => FoldersCQuiet(c)
          /\ folderC[c].closed => FolderCQuiet(c)
          /\ filesC[c].closed => FilesCQuiet(c)
\* sync has returned success with all six channels closed, after folders, files and
\* a record to download went through them
AllClosedWitness ==
    /\ mainPc = "returned" /\ syncResult = Nil
    /\ coursesC.closed /\ treeC.closed /\ fileToSyncC.closed
    /\ \E c \in CourseIds :
          /\ foldersC[c].closed /\ folderC[c].closed /\ filesC[c].closed
          /\ flatFolders[c] # <<>> /\ flatFiles[c] # <<>>
    /\ emitted # {}
====
